---- MODULE Spec2Model ----
(***************************************************************************)
(* A model of the Portfolio repository: the Astro site (its configuration  *)
(* and the markdown posts of the content collection) and the React         *)
(* components and hooks whose code the posts carry.                        *)
(***************************************************************************)
EXTENDS Integers, Sequences, FiniteSets, TLC

VARIABLES
    \* ---- the site: configuration, content collection, build ----
    config,        \* the record exported by astro.config.mjs
    files,         \* post file name -> the file's lines
    buildPc,       \* "idle" | "building"
    collection,    \* the entries the running build has read so far
    created,       \* how many posts have been created since Init
    \* ---- VerifiableChain (components/VerifiableChain.tsx) ----
    vcMounted,     \* the component is mounted
    chain,         \* useState<ChainEntry[]>: the stored chain
    closureChain,  \* the chain the last render's closures (addEntry) hold
    isChainValid,  \* useState<boolean>
    pendingAdds,   \* addEntry calls awaiting sha256, each with what it captured
    validations,   \* validateChain runs in flight, each the chain it captured
    now,           \* the clock new Date() reads
    genuine,       \* the chain as addEntry alone built it
    addCalls,      \* addEntry calls made so far
    tampers,       \* entries changed from outside so far
    \* ---- useEvent (the hook of the useEffectEvent post) ----
    ueMounted,     \* a component instance using useEvent is mounted
    ueHandler,     \* the handler passed to useEvent in the most recent render
    handlerRef,    \* handlerRef.current
    layoutHandler, \* the handler a pending layout effect will store, or NoHandler
    layoutDeps,    \* the [handler] dependencies of the last layout effect run
    callbackMemo,  \* useCallback's memo: [fn, deps], or NoMemo
    returnedFns,   \* the functions useEvent has returned to this instance
    lastCall,      \* the last call of the returned function: [ran, latest]
    ueRenders,     \* renders so far (each creates one new wrapper function)
    scrollListeners, \* the 'scroll' listeners registered on window
    scrollEffect,  \* the last run of UserActivityLogger's effect: [deps, listener]
    scrollEffectRuns, \* runs of that effect since the instance mounted
    scrollCalls,   \* handler calls the last scroll event made
    \* ---- ProtectedRoutes (the SaaS starter post) ----
    authUser,      \* AuthContext: user
    authLoading,   \* AuthContext: isLoading
    history,       \* the router's history stack; its last entry is the location
    element,       \* what ProtectedRoutes returned at its last render, or NoElement
    shown,         \* what the page shows
    \* ---- LocalVideoPlayer (the WebRTC post) ----
    lvMounted,     \* the component is mounted
    videoRef,      \* localVideoRef.current is the <video> element (not null)
    srcObject,     \* the <video> element's srcObject: a stream or NoStream
    streamError,   \* streamError is set
    pendingMedia,  \* getUserMedia calls not yet settled
    tracks,        \* stream -> "live" | "stopped", for each stream acquired
    passedUp,      \* the streams handed to onLocalStream
    mediaCalls,    \* getUserMedia calls made so far
    \* ---- TodoList (the Activity post, useOptimistic) ----
    optimisticTodos, \* the list useOptimistic returned at the last render
    todoUpdates,   \* the texts addOptimisticTodo queued in actions not yet over
    todoPending,   \* form actions awaiting addTodoAction: [text, n, before]
    todoOutcomes,  \* the addTodoAction calls that settled: [text, n, before, outcome]
    todoSubmits,   \* form submissions so far
    todoNow,       \* the clock Date.now() reads
    \* ---- BookingPage (pages/book/[tripId].tsx) ----
    bkMounted,     \* the page is mounted
    trip,          \* useState<TripDetails>: [id, status, driverInfo]
    bkLoading,     \* useState: loading
    bkIntervals,   \* the intervals setInterval started and clearInterval has not cleared
    bkEffect,      \* the last run of the effect: [deps, interval] (interval 0: none)
    bkFetches,     \* fetchLiveUpdates calls in flight: [id, stage]
    bkNextInterval, \* the id the next setInterval returns
    bkPolls,       \* fetchLiveUpdates calls so far
    bkMounts,      \* mounts of the page so far
    \* ---- fetchDataWithPromises / fetchDataWithAsyncAwait (the async/await post) ----
    fdWorld,       \* the call under way: [userId, fetch, json], what fetch and response.json() will do
    pPc,           \* fetchDataWithPromises: the handler of its chain that runs next
    pCarry,        \* the value or error the chain carries to that handler
    pResult,       \* the promise fetchDataWithPromises returned: [state, value]
    pLog,          \* what fetchDataWithPromises wrote to the console
    aPc,           \* fetchDataWithAsyncAwait: the await it is suspended at
    aResult,       \* the promise fetchDataWithAsyncAwait returned: [state, value]
    aLog,          \* what fetchDataWithAsyncAwait wrote to the console
    \* ---- FilterProvider / HaubeLinkToInvoiceList (the async/await post) ----
    searchParams,  \* useSearchParams(): the URL's search parameters, a list of <<key, value>>
    linkRender,    \* the last render of the link: [overrideFilters, clearFilters, from, to]
    \* ---- BetterTimer (the async/await post, useEffect cleanup) ----
    btMounted,     \* the component is mounted
    seconds,       \* useState: seconds, of the instance mounted last
    btIntervals,   \* the intervals setInterval started and clearInterval has not cleared
    btEffect,      \* the intervalId of the mounted instance's effect run, 0 before it
    btNextInterval, \* the id the next setInterval returns
    btMounts,      \* mounts so far
    btLateTick,    \* an interval has called setSeconds of an instance that had unmounted
    btShown,       \* the seconds the last render put on the page
    \* ---- useWebRTC / LiveStreamComponent (the WebRTC post), one per peer ----
    rtcLocal,      \* peer -> localStream (NoStream: null)
    rtcPc,         \* peer -> peerConnectionRef.current: a connection or NoPc
    rtcRemoteStream, \* peer -> remoteStream (NoStream: null)
    rtcCalling,    \* peer -> isCalling
    rtcAnswering,  \* peer -> the 'offer' handler suspended after setRemoteDescription, or NoAnswering
    rtcChannel,    \* the signaling messages in flight: [to, event, desc, n]
    rtcView,       \* peer -> the last commit: [video, srcObject, dep]
    rtcHandled,    \* the signaling messages handled: [peer, event, result]
    rtcCalls,      \* startCall calls so far
    \* ---- mockSignalingClient (the WebRTC post) ----
    listeners,     \* mockSignalingClient.listeners: event -> the handlers pushed by on()
    mockTimers,    \* the setTimeout callbacks emit has scheduled: [handler, event, payload]
    mockInvoked,   \* the handler call made last: [handler, emitted, payload]
    mockEmits,     \* emit calls so far
    \* ---- FilterProvider (the filter context of the invoice list) ----
    fpSearchParams, \* searchParams of useSearchParams: the parameters of the URL
    setFiltersCall, \* the setFilters call made last
    \* ---- fetchMultipleUsers (Promise.all over fetchDataWithAsyncAwait) ----
    userIds,       \* the argument of the fetchMultipleUsers call
    userPromises,  \* per id, the fetchDataWithAsyncAwait call: its position and its promise
    fetchesStarted, \* the ids fetch() was called for, in call order
    settledOrder,  \* the indexes of userPromises in the order they settled
    allPromise,    \* the promise Promise.all returned
    fmPc,          \* the position of fetchMultipleUsers
    fmResult,      \* the promise fetchMultipleUsers returned
    fmLog,         \* the console
    \* ---- The post page (getStaticPaths and getStaticProps over the posts directory) ----
    postsDirectory, \* the names in the posts directory
    paths,         \* the slugs getStaticPaths returned, or NotBuilt
    fileRead       \* the readFileSync call of the last getStaticProps

siteVars == <<config, files, buildPc, collection, created>>

chainVars == <<vcMounted, chain, closureChain, isChainValid, pendingAdds,
               validations, now, genuine, addCalls, tampers>>

useEventVars == <<ueMounted, ueHandler, handlerRef, layoutHandler, layoutDeps,
                  callbackMemo, returnedFns, lastCall, ueRenders,
                  scrollListeners, scrollEffect, scrollEffectRuns, scrollCalls>>

authVars == <<authUser, authLoading, history, element, shown>>

videoVars == <<lvMounted, videoRef, srcObject, streamError, pendingMedia,
               tracks, passedUp, mediaCalls>>

todoVars == <<optimisticTodos, todoUpdates, todoPending, todoOutcomes,
              todoSubmits, todoNow>>

bookingVars == <<bkMounted, trip, bkLoading, bkIntervals, bkEffect,
                 bkFetches, bkNextInterval, bkPolls, bkMounts>>

fetchVars == <<fdWorld, pPc, pCarry, pResult, pLog, aPc, aResult, aLog>>

linkVars == <<searchParams, linkRender>>

timerVars == <<btMounted, seconds, btIntervals, btEffect,
               btNextInterval, btMounts, btLateTick, btShown>>

rtcVars == <<rtcLocal, rtcPc, rtcRemoteStream, rtcCalling,
             rtcAnswering, rtcChannel, rtcView, rtcHandled, rtcCalls>>

mockVars == <<listeners, mockTimers, mockInvoked, mockEmits>>

filterVars == <<fpSearchParams, setFiltersCall>>

multiVars == <<userIds, userPromises, fetchesStarted, settledOrder,
               allPromise, fmPc, fmResult, fmLog>>

postVars == <<postsDirectory, paths, fileRead>>

vars == <<siteVars, chainVars, useEventVars, authVars, videoVars,
          todoVars, bookingVars, fetchVars, linkVars, timerVars, rtcVars,
          mockVars, filterVars, multiVars, postVars>>

\* What a step of one component leaves alone: the state of the others.
otherSiteVars == <<chainVars, useEventVars, authVars, videoVars, todoVars,
                   bookingVars, fetchVars, linkVars, timerVars, rtcVars,
                   mockVars, filterVars, multiVars, postVars>>

otherChainVars == <<siteVars, useEventVars, authVars, videoVars, todoVars,
                    bookingVars, fetchVars, linkVars, timerVars, rtcVars,
                    mockVars, filterVars, multiVars, postVars>>

otherUseEventVars == <<siteVars, chainVars, authVars, videoVars, todoVars,
                       bookingVars, fetchVars, linkVars, timerVars,
                       rtcVars, mockVars, filterVars, multiVars, postVars>>

otherAuthVars == <<siteVars, chainVars, useEventVars, videoVars, todoVars,
                   bookingVars, fetchVars, linkVars, timerVars, rtcVars,
                   mockVars, filterVars, multiVars, postVars>>

otherVideoVars == <<siteVars, chainVars, useEventVars, authVars, todoVars,
                    bookingVars, fetchVars, linkVars, timerVars, rtcVars,
                    mockVars, filterVars, multiVars, postVars>>

otherTodoVars == <<siteVars, chainVars, useEventVars, authVars, videoVars,
                   bookingVars, fetchVars, linkVars, timerVars, rtcVars,
                   mockVars, filterVars, multiVars, postVars>>

otherBookingVars == <<siteVars, chainVars, useEventVars, authVars,
                      videoVars, todoVars, fetchVars, linkVars, timerVars,
                      rtcVars, mockVars, filterVars, multiVars, postVars>>

otherFetchVars == <<siteVars, chainVars, useEventVars, authVars,
                    videoVars, todoVars, bookingVars, linkVars, timerVars,
                    rtcVars, mockVars, filterVars, multiVars, postVars>>

otherLinkVars == <<siteVars, chainVars, useEventVars, authVars, videoVars,
                   todoVars, bookingVars, fetchVars, timerVars, rtcVars,
                   mockVars, filterVars, multiVars, postVars>>

otherTimerVars == <<siteVars, chainVars, useEventVars, authVars,
                    videoVars, todoVars, bookingVars, fetchVars, linkVars,
                    rtcVars, mockVars, filterVars, multiVars, postVars>>

otherRtcVars == <<siteVars, chainVars, useEventVars, authVars, videoVars,
                  todoVars, bookingVars, fetchVars, linkVars, timerVars,
                  mockVars, filterVars, multiVars, postVars>>

otherMockVars == <<siteVars, chainVars, useEventVars, authVars, videoVars,
                   todoVars, bookingVars, fetchVars, linkVars, timerVars,
                   rtcVars, filterVars, multiVars, postVars>>

otherFilterVars == <<siteVars, chainVars, useEventVars, authVars,
                     videoVars, todoVars, bookingVars, fetchVars,
                     linkVars, timerVars, rtcVars, mockVars, multiVars,
                     postVars>>

otherMultiVars == <<siteVars, chainVars, useEventVars, authVars,
                    videoVars, todoVars, bookingVars, fetchVars, linkVars,
                    timerVars, rtcVars, mockVars, filterVars, postVars>>

otherPostVars == <<siteVars, chainVars, useEventVars, authVars, videoVars,
                   todoVars, bookingVars, fetchVars, linkVars, timerVars,
                   rtcVars, mockVars, filterVars, multiVars>>

(***************************************************************************)
(* Bounds                                                                  *)
(***************************************************************************)
MaxCreated == 1

MaxAddCalls == 2

MaxClock == 1

MaxTampers == 1

MaxRenders == 4

MaxHistory == 3

MaxMediaCalls == 3

MaxSubmits == 3

MaxTodoClock == 1

MaxPolls == 2

MaxBkMounts == 1

MaxParams == 2

MaxSeconds == 5

MaxBtMounts == 3

MaxCalls == 2

MaxEmits == 2

MaxOns == 2

\* The longest userIds array.
MaxUsers == 2

\* The longest file name, in parts, and the most names in the directory.
MaxNameLen == 2

MaxFiles == 2

(***************************************************************************)
(* Markdown files as sequences of lines.  A line is a fence (---), a       *)
(* "key: value" field, or any other text; a run of prose and code is kept  *)
(* as one text line.                                                       *)
(***************************************************************************)
Fence == [kind |-> "fence", key |-> "", value |-> ""]

Field(k, v) == [kind |-> "field", key |-> k, value |-> v]

Text == [kind |-> "text", key |-> "", value |-> ""]

\* The first line at or after j that is not a field (Len(file) + 1 when
\* there is none).
RECURSIVE FieldsEnd(_, _)
FieldsEnd(file, j) ==
    IF j <= Len(file) /\ file[j].kind = "field"
    THEN FieldsEnd(file, j + 1)
    ELSE j

\* The block a fence at line i opens: the index of the closing fence when
\* lines i+1 .. j-1 are one or more fields, and 0 when line i opens no block.
BlockEnd(file, i) ==
    LET j == FieldsEnd(file, i + 1)
    IN  IF /\ file[i].kind = "fence"
           /\ j > i + 1
           /\ j <= Len(file)
           /\ file[j].kind = "fence"
        THEN j
        ELSE 0

RECURSIVE ScanBlocks(_, _)
ScanBlocks(file, i) ==
    IF i > Len(file) THEN <<>>
    ELSE LET j == BlockEnd(file, i)
         IN  IF j > 0
             THEN <<SubSeq(file, i + 1, j - 1)>> \o ScanBlocks(file, j + 1)
             ELSE ScanBlocks(file, i + 1)

\* Every frontmatter block of a file, in file order.
FrontmatterBlocks(file) == ScanBlocks(file, 1)

\* The values a block gives for a key, in block order.
FieldValues(block, k) ==
    LET idx == {i \in 1..Len(block) : block[i].key = k}
    IN  [i \in idx |-> block[i].value]

FieldCount(block, k) == Cardinality({i \in 1..Len(block) : block[i].key = k})

HasNonEmpty(block, k) ==
    \E i \in 1..Len(block) : block[i].key = k /\ block[i].value # ""

(***************************************************************************)
(* The posts of the repository.                                            *)
(***************************************************************************)
AsyncAwaitPost ==
    << Fence,
       Field("title", "async/await is NOT just syntax sugar for Promises"),
       Field("description", "async/await: Far More Than Just Syntax Sugar for..."),
       Field("pubDate", "Jan 17 2026"),
       Field("heroImage", "../../assets/async-await-is-not-just-syntax-sugar-for-promises.jpg"),
       Fence, Text,
       Fence,
       \* (the title's backquotes around useRef are written as apostrophes)
       Field("title", "Using 'useRef' to Set Focus on an Input Field"),
       Field("description", "Guiding User Attention: Mastering Input Focus with..."),
       Field("pubDate", "Dec 18 2025"),
       Field("heroImage", "../../assets/using--useref--to-set-focus-on-an-input-field.jpg"),
       Fence, Text,
       Fence,
       Field("title", "HaubeLinks"),
       Field("description", "Elevating React Navigation: Beyond the <Link> Tag with..."),
       Field("pubDate", "Feb 07 2026"),
       Field("heroImage", "../../assets/haubelinks.jpg"),
       Fence, Text,
       Fence,
       Field("title", "Technical Deep Dive: How React Server Components Work and Where the Vulnerabilities Appear"),
       Field("description", "The Server Component Revolution: Unpacking React's Next Big Thing (and Its Hidden..."),
       Field("pubDate", "Dec 16 2025"),
       Field("heroImage", "../../assets/technical-deep-dive--how-react-server-components-w.jpg"),
       Fence, Text,
       Fence,
       Field("title", "Implementation Mistakes by Devs: How you should not use useEffect"),
       Field("description", "useEffect: The Powerhouse Hook That's Often..."),
       Field("pubDate", "Jan 08 2026"),
       Field("heroImage", "../../assets/implementation-mistakes-by-devs--how-you-should-no.jpg"),
       Fence, Text >>

SaasPostNoDescription ==
    << Fence,
       Field("title", "How I Built a SaaS Starter Template with React & Tailwind CSS"),
       Field("description", ""),
       Field("pubDate", "Jan 09 2026"),
       Field("heroImage", "../../assets/how-i-built-a-saas-starter-template-with-react---t.jpg"),
       Fence, Text >>

SaasPost ==
    << Fence,
       Field("title", "How I Built a SaaS Starter Template with React & Tailwind CSS"),
       Field("description", "Building a SaaS Starter Template with React & Tailwind CSS: Beyond the..."),
       Field("pubDate", "Jan 09 2026"),
       Field("heroImage", "../../assets/how-i-built-a-saas-starter-template-with-react---t.jpg"),
       Fence, Text >>

UseEffectEventPost ==
    << Fence,
       Field("title", "ReactJS Hook Pattern ~useEffectEvent Pattern~"),
       Field("description", "The useEffectEvent Pattern: Taming React's useEffect for..."),
       Field("pubDate", "Jan 19 2026"),
       Field("heroImage", "../../assets/reactjs-hook-pattern--useeffectevent-pattern-.jpg"),
       Fence, Text >>

ActivityPost ==
    << Fence,
       Field("title", "Understanding the <Activity> Component in React 19"),
       Field("description", "Demystifying Activity Management with React Actions in React..."),
       Field("pubDate", "Jan 21 2026"),
       Field("heroImage", "../../assets/understanding-the--activity--component-in-react-19.jpg"),
       Fence, Text >>

CabBookingPost ==
    << Fence,
       Field("title", "Amritsar to Delhi Cab | Affordable & Safe Cab Booking"),
       Field("description", "Crafting Seamless Journeys: Building a Cab Booking App with Next.js and..."),
       Field("pubDate", "Jan 23 2026"),
       Field("heroImage", "../../assets/amritsar-to-delhi-cab---affordable---safe-cab-book.jpg"),
       Fence, Text >>

\* The post the README's "Adding Blog Posts" section tells an author to write,
\* under the title the author gives it.
ReadmeTemplatePost(title) ==
    << Fence,
       Field("title", title),
       Field("description", "A brief description"),
       Field("pubDate", "Dec 12 2025"),
       Field("heroImage", "/path/to/image.jpg"),
       Fence, Text >>

RepositoryPosts ==
    [f \in { "async-await-is-not-just-syntax-sugar-for-promises.md",
             "how-i-built-a-saas-starter-template-with-react---t.md",
             "reactjs-hook-pattern--useeffectevent-pattern-.md",
             "understanding-the--activity--component-in-react-19.md",
             "unnamed/part_005" } |->
        CASE f = "async-await-is-not-just-syntax-sugar-for-promises.md" -> AsyncAwaitPost
          [] f = "how-i-built-a-saas-starter-template-with-react---t.md" -> SaasPost
          [] f = "reactjs-hook-pattern--useeffectevent-pattern-.md" -> UseEffectEventPost
          [] f = "understanding-the--activity--component-in-react-19.md" -> ActivityPost
          [] OTHER -> CabBookingPost]

\* Names an author may give a new post: "a new .md or .mdx file" (or the
\* name of a post deleted before).
NewPostNames == {"new-post.md", "new-post.mdx"}

NewPostTitles == {"Your Post Title"}

(***************************************************************************)
(* The site configuration.                                                 *)
(***************************************************************************)
defineConfigNoBase ==
    [ site |-> "https://bishoy-bishai.github.io",
      base |-> "/",
      integrations |-> <<"mdx", "sitemap">>,
      vite |-> [plugins |-> <<"tailwindcss">>] ]

defineConfig ==
    [ site |-> "https://bishoy-bishai.github.io",
      base |-> "/portfolio",
      integrations |-> <<"mdx", "sitemap">>,
      vite |-> [plugins |-> <<"tailwindcss">>] ]

(***************************************************************************)
(* Site operations.                                                        *)
(***************************************************************************)
SiteInit ==
    /\ config = defineConfig
    /\ files = RepositoryPosts
    /\ buildPc = "idle"
    /\ collection = {}
    /\ created = 0

\* An author adds a post over an existing file of the same name.
CreatePostOverwrite(name, title) ==
    /\ created < MaxCreated
    /\ files' = [f \in DOMAIN files \cup {name} |->
                    IF f = name THEN ReadmeTemplatePost(title) ELSE files[f]]
    /\ created' = created + 1
    /\ UNCHANGED <<config, buildPc, collection>>

\* An author creates a new post file from the README's template.
CreatePost(name, title) ==
    /\ created < MaxCreated
    /\ name \notin DOMAIN files
    /\ files' = [f \in DOMAIN files \cup {name} |->
                    IF f = name THEN ReadmeTemplatePost(title) ELSE files[f]]
    /\ created' = created + 1
    /\ UNCHANGED <<config, buildPc, collection>>

\* A post is removed by deleting its file.
DeletePost(name) ==
    /\ name \in DOMAIN files
    /\ files' = [f \in DOMAIN files \ {name} |-> files[f]]
    /\ UNCHANGED <<config, buildPc, collection, created>>

\* npm run build: the build starts with an empty collection.
BuildStart ==
    /\ buildPc = "idle"
    /\ buildPc' = "building"
    /\ collection' = {}
    /\ UNCHANGED <<config, files, created>>

\* The build reads one post: the file's leading frontmatter block becomes the
\* entry's data, and the page is placed under the configured site and base.
BuildReadPost(name) ==
    /\ buildPc = "building"
    /\ name \in DOMAIN files
    /\ name \notin {e.file : e \in collection}
    /\ BlockEnd(files[name], 1) > 0
    /\ collection' = collection \cup
            {[ file |-> name,
               data |-> FrontmatterBlocks(files[name])[1],
               site |-> config.site,
               base |-> config.base ]}
    /\ UNCHANGED <<config, files, buildPc, created>>

BuildFinish ==
    /\ buildPc = "building"
    /\ DOMAIN files \subseteq {e.file : e \in collection}
    /\ buildPc' = "idle"
    /\ UNCHANGED <<config, files, collection, created>>

SiteNext ==
    \/ \E name \in NewPostNames \cup DOMAIN RepositoryPosts,
          title \in NewPostTitles :
          CreatePost(name, title) /\ UNCHANGED otherSiteVars
    \/ \E name \in DOMAIN files : DeletePost(name) /\ UNCHANGED otherSiteVars
    \/ BuildStart /\ UNCHANGED otherSiteVars
    \/ \E name \in DOMAIN files : BuildReadPost(name) /\ UNCHANGED otherSiteVars
    \/ BuildFinish /\ UNCHANGED otherSiteVars

(***************************************************************************)
(* Properties of the site.                                                 *)
(***************************************************************************)
RequiredFields == {"title", "description", "pubDate"}

\* C1: every frontmatter block of every post file has the fields title,
\* description and pubDate, each present with a non-empty value (and every
\* post file has at least one such block).
C1_RequiredFieldsPresent ==
    \A f \in DOMAIN files :
        /\ Len(FrontmatterBlocks(files[f])) >= 1
        /\ \A i \in 1..Len(FrontmatterBlocks(files[f])) :
              \A k \in RequiredFields :
                  HasNonEmpty(FrontmatterBlocks(files[f])[i], k)

\* All five repository posts and an author's new post are present, the
\* five-block file among them.
C1_Witness ==
    /\ DOMAIN RepositoryPosts \subseteq DOMAIN files
    /\ DOMAIN files \cap NewPostNames # {}
    /\ \E f \in DOMAIN files : Len(FrontmatterBlocks(files[f])) = 5

\* C2: every post file holds exactly one frontmatter block, and that block
\* has exactly one heroImage field.
C2_OneBlockOneHeroImage ==
    \A f \in DOMAIN files :
        /\ Len(FrontmatterBlocks(files[f])) = 1
        /\ FieldCount(FrontmatterBlocks(files[f])[1], "heroImage") = 1

\* C4: the configuration holds the values astro.config.mjs exports, in every
\* state: before, during and after every build.
C4_ConfigStatic ==
    /\ config.site = "https://bishoy-bishai.github.io"
    /\ config.base = "/portfolio"
    /\ config.integrations = <<"mdx", "sitemap">>
    /\ config.vite.plugins = <<"tailwindcss">>
    /\ \A e \in collection : e.site = config.site /\ e.base = config.base

\* A build has read the configuration for every post and finished.
C4_Witness ==
    /\ buildPc = "idle"
    /\ collection # {}
    /\ DOMAIN files \subseteq {e.file : e \in collection}

\* A step creates one post file, removes one post file or leaves the set of
\* files as it is (a build step), and the lines of a file present before
\* and after the step are the same.
C5_StepKeepsPosts ==
    /\ \/ DOMAIN files' = DOMAIN files
       \/ \E n \in DOMAIN files' \ DOMAIN files :
             DOMAIN files' = DOMAIN files \cup {n}
       \/ \E n \in DOMAIN files \ DOMAIN files' :
             DOMAIN files' = DOMAIN files \ {n}
    /\ \A f \in DOMAIN files \cap DOMAIN files' : files'[f] = files[f]

\* C5: the only transitions of a post are creation, build-time reads and
\* removal, and none of them changes a post that stays: every step keeps
\* the posts in the sense of C5_StepKeepsPosts.
C5_PostLifecycle == [][C5_StepKeepsPosts]_vars

\* A post was created, a repository post was deleted, and the running build
\* has read a post whose file still holds the block the build read.
C5_Witness ==
    /\ created > 0
    /\ DOMAIN files \cap NewPostNames # {}
    /\ ~(DOMAIN RepositoryPosts \subseteq DOMAIN files)
    /\ \E e \in collection :
          /\ e.file \in DOMAIN files
          /\ e.data = FrontmatterBlocks(files[e.file])[1]

(***************************************************************************)
(* VerifiableChain.  Strings are sequences of symbols, so that the         *)
(* template string of addEntry and validateChain is a concatenation.       *)
(***************************************************************************)
\* previousHash: string | null
Null == <<"null">>

Genesis == <<"genesis">>

Dash == <<"-">>

\* sha256 without collisions: a hex digest stands for the message it digests.
sha256(message) == <<"#">> \o message

\* new Date().toISOString()
toISOString(t) == IF t = 0 THEN <<"T0">> ELSE IF t = 1 THEN <<"T1">> ELSE <<"T2">>

\* previousHash || 'genesis': null and the empty string are falsy.
OrGenesis(previousHash) ==
    IF previousHash = Null \/ previousHash = <<>> THEN Genesis ELSE previousHash

\* `${timestamp}-${data}-${previousHash || 'genesis'}`
inputForHash(timestamp, data, previousHash) ==
    timestamp \o Dash \o data \o Dash \o OrGenesis(previousHash)

\* validateChain's loop: valid unless some entry's recomputed hash differs
\* from its hash, or its previousHash differs from the hash of the entry
\* before it (the first entry has none before it).
validateChain(c) ==
    \A i \in 1..Len(c) :
        /\ sha256(inputForHash(c[i].timestamp, c[i].data, c[i].previousHash)) = c[i].hash
        /\ (i > 1 => c[i].previousHash = c[i - 1].hash)

\* What a user types, or initialEvents holds.
EventData == {<<"a">>, <<"b">>}

InitialEvents == {<<>>, <<<<"a">>>>, <<<<"a">>, <<"b">>>>}

\* What addEntry computes before it awaits sha256, from the chain its
\* closure holds.
addEntryCall(data, c, t) ==
    [ id |-> Len(c) + 1,
      timestamp |-> toISOString(t),
      data |-> data,
      previousHash |-> IF Len(c) > 0 THEN c[Len(c)].hash ELSE Null ]

newEntry(call) ==
    [ id |-> call.id,
      timestamp |-> call.timestamp,
      data |-> call.data,
      previousHash |-> call.previousHash,
      hash |-> sha256(inputForHash(call.timestamp, call.data, call.previousHash)) ]

RECURSIVE CallsFor(_, _, _)
CallsFor(events, c, t) ==
    IF events = <<>> THEN <<>>
    ELSE <<addEntryCall(Head(events), c, t)>> \o CallsFor(Tail(events), c, t)

RemoveAt(seq, i) == SubSeq(seq, 1, i - 1) \o SubSeq(seq, i + 1, Len(seq))

ChainInit ==
    /\ vcMounted = FALSE
    /\ chain = <<>>
    /\ closureChain = <<>>
    /\ isChainValid = TRUE
    /\ pendingAdds = <<>>
    /\ validations = {}
    /\ now = 0
    /\ genuine = <<>>
    /\ addCalls = 0
    /\ tampers = 0

\* Mount: the first render with the empty chain; the validation effect sets
\* isChainValid for the empty chain, and the mount effect calls addEntry for
\* every initial event, all from the first render's closure.
VcMount(initialEvents) ==
    /\ ~vcMounted
    /\ vcMounted' = TRUE
    /\ closureChain' = chain
    /\ isChainValid' = TRUE
    /\ pendingAdds' = CallsFor(initialEvents, chain, now)
    /\ addCalls' = Len(initialEvents)
    /\ UNCHANGED <<chain, validations, now, genuine, tampers>>

\* The Add Event button: addEntry(newEventData) of the last render, up to
\* its await.
AddEntryCall(data) ==
    /\ vcMounted
    /\ addCalls < MaxAddCalls
    /\ pendingAdds' = Append(pendingAdds, addEntryCall(data, closureChain, now))
    /\ addCalls' = addCalls + 1
    /\ UNCHANGED <<vcMounted, chain, closureChain, isChainValid, validations,
                   now, genuine, tampers>>

\* sha256 resolves for one pending addEntry: setChain(prev => [...prev, newEntry]).
AddEntryResume(k) ==
    /\ vcMounted
    /\ k \in 1..Len(pendingAdds)
    /\ chain' = Append(chain, newEntry(pendingAdds[k]))
    /\ genuine' = Append(genuine, newEntry(pendingAdds[k]))
    /\ pendingAdds' = RemoveAt(pendingAdds, k)
    /\ UNCHANGED <<vcMounted, closureChain, isChainValid, validations, now,
                   addCalls, tampers>>

\* A re-render after the chain changed: addEntry is recreated over the new
\* chain and the validation effect runs, starting validateChain for a
\* non-empty chain.
VcRender ==
    /\ vcMounted
    /\ closureChain # chain
    /\ closureChain' = chain
    /\ IF Len(chain) > 0
       THEN validations' = validations \cup {chain} /\ UNCHANGED isChainValid
       ELSE isChainValid' = TRUE /\ UNCHANGED validations
    /\ UNCHANGED <<vcMounted, chain, pendingAdds, now, genuine, addCalls, tampers>>

\* A validateChain run reaches its end: setIsChainValid(valid).
ValidateChainDone(c) ==
    /\ c \in validations
    /\ isChainValid' = validateChain(c)
    /\ validations' = validations \ {c}
    /\ UNCHANGED <<vcMounted, chain, closureChain, pendingAdds, now, genuine,
                   addCalls, tampers>>

Tick ==
    /\ now < MaxClock
    /\ now' = now + 1
    /\ UNCHANGED <<vcMounted, chain, closureChain, isChainValid, pendingAdds,
                   validations, genuine, addCalls, tampers>>

\* The values a tampered field may be given.
HashesOf(c) == {c[i].hash : i \in 1..Len(c)}

TamperValues(c, field) ==
    CASE field = "timestamp" -> {toISOString(0), toISOString(1)}
      [] field = "data" -> EventData
      [] field = "previousHash" -> {Null, <<>>, Genesis} \cup HashesOf(c)
      [] OTHER -> HashesOf(c) \cup {sha256(<<"x">>)}

\* One field of one stored entry is changed from outside the component and
\* the changed chain is what the component then holds.
Tamper(i, field, v) ==
    /\ vcMounted
    /\ tampers < MaxTampers
    /\ i \in 1..Len(chain)
    /\ v # chain[i][field]
    /\ chain' = [chain EXCEPT ![i][field] = v]
    /\ tampers' = tampers + 1
    /\ UNCHANGED <<vcMounted, closureChain, isChainValid, pendingAdds,
                   validations, now, genuine, addCalls>>

ChainNext ==
    \/ \E initialEvents \in InitialEvents :
          VcMount(initialEvents) /\ UNCHANGED otherChainVars
    \/ \E data \in EventData : AddEntryCall(data) /\ UNCHANGED otherChainVars
    \/ \E k \in 1..Len(pendingAdds) : AddEntryResume(k) /\ UNCHANGED otherChainVars
    \/ VcRender /\ UNCHANGED otherChainVars
    \/ \E c \in validations : ValidateChainDone(c) /\ UNCHANGED otherChainVars
    \/ Tick /\ UNCHANGED otherChainVars
    \/ \E i \in 1..Len(chain),
          field \in {"timestamp", "data", "previousHash", "hash"} :
          \E v \in TamperValues(chain, field) :
             Tamper(i, field, v) /\ UNCHANGED otherChainVars

(***************************************************************************)
(* Properties of VerifiableChain.                                          *)
(***************************************************************************)
\* C6: a stored chain in which the content of an entry was changed
\* (timestamp, data, previousHash or hash) does not pass validateChain, and
\* a validation that has run over it has set isChainValid to false.
C6_TamperEvident ==
    (chain # genuine) =>
        /\ ~validateChain(chain)
        /\ (closureChain = chain /\ validations = {} => ~isChainValid)

\* C18: in a chain that only addEntry has written, the first entry's
\* previousHash is null and every other entry's previousHash is the hash of
\* the entry before it.
C18_EntriesLinked ==
    (tampers = 0) =>
        \A i \in 1..Len(chain) :
            chain[i].previousHash = IF i = 1 THEN Null ELSE chain[i - 1].hash

\* C26: when the component has rendered with the latest chain and no
\* validateChain run is under way, isChainValid is the validity of that
\* chain, in whatever order the runs started for earlier chains finished.
C26_StatusFollowsChain ==
    (vcMounted /\ closureChain = chain /\ validations = {}) =>
        isChainValid = validateChain(chain)

(***************************************************************************)
(* useEvent.  A function is known by its identity: the handlers a          *)
(* component passes are drawn from Handlers, and the wrapper a render      *)
(* creates for useCallback is numbered by the render.                      *)
(***************************************************************************)
Handlers == {"h1", "h2", "h3"}

NoHandler == "none"

NoMemo == [fn |-> 0, deps |-> <<"unset">>]

NoCall == [ran |-> NoHandler, latest |-> NoHandler]

\* The dependency array of useCallback for the wrapper, were it [handler].
stableHandlerDepsOnHandler(handler) == <<handler>>

\* The dependency array of useCallback for the wrapper: [].
stableHandlerDeps(handler) == <<>>

\* React's useCallback(fn, deps): the memoized function while the
\* dependencies are the same as those of the memo, else fn.
useCallback(memo, fn, deps) ==
    IF memo # NoMemo /\ memo.deps = deps THEN memo ELSE [fn |-> fn, deps |-> deps]

\* The effect has not run: no dependencies stored, no listener.
NoScrollEffect == [deps |-> <<>>, listener |-> 0]

\* The dependency array of UserActivityLogger's effect, were it the handler
\* of the render (the closure over clickCount and userId).
scrollEffectDepsOnHandler(handleUserInteraction, handler) == <<handler>>

\* The dependency array of UserActivityLogger's effect:
\* [handleUserInteraction], the function useEvent returned.
scrollEffectDeps(handleUserInteraction, handler) == <<handleUserInteraction>>

\* The last render's effect has yet to run: its dependencies differ from
\* those of the last run.
ScrollEffectPending ==
    /\ ueMounted
    /\ scrollEffect.deps # scrollEffectDeps(callbackMemo.fn, ueHandler)

UseEventInit ==
    /\ scrollListeners = {}
    /\ scrollEffect = NoScrollEffect
    /\ scrollEffectRuns = 0
    /\ scrollCalls = 0
    /\ ueMounted = FALSE
    /\ ueHandler = NoHandler
    /\ handlerRef = NoHandler
    /\ layoutHandler = NoHandler
    /\ layoutDeps = <<"unset">>
    /\ callbackMemo = NoMemo
    /\ returnedFns = {}
    /\ lastCall = NoCall
    /\ ueRenders = 0

\* A render of the component, once the render before it has committed and
\* its effects have run: the body of useEvent(handler) runs.  useRef keeps its value after the first
\* render, useLayoutEffect schedules its effect when [handler] differs from
\* the last run's, useCallback returns the wrapper.
UseEventRender(handler) ==
    /\ ueRenders < MaxRenders
    /\ layoutHandler = NoHandler
    /\ ~ScrollEffectPending
    /\ ueRenders' = ueRenders + 1
    /\ ueMounted' = TRUE
    /\ ueHandler' = handler
    /\ handlerRef' = IF ueMounted THEN handlerRef ELSE handler
    /\ layoutHandler' = IF layoutDeps # <<handler>> THEN handler ELSE NoHandler
    /\ callbackMemo' = useCallback(callbackMemo, ueRenders + 1, stableHandlerDeps(handler))
    /\ returnedFns' = returnedFns \cup {callbackMemo'.fn}
    /\ UNCHANGED <<layoutDeps, lastCall, scrollListeners, scrollEffect,
                   scrollEffectRuns, scrollCalls>>

\* The commit of the last render: the layout effect runs,
\* handlerRef.current = handler.
UseEventLayoutEffect ==
    /\ ueMounted
    /\ layoutHandler # NoHandler
    /\ handlerRef' = layoutHandler
    /\ layoutDeps' = <<layoutHandler>>
    /\ layoutHandler' = NoHandler
    /\ UNCHANGED <<ueMounted, ueHandler, callbackMemo, returnedFns, lastCall,
                   ueRenders, scrollListeners, scrollEffect, scrollEffectRuns,
                   scrollCalls>>

\* Someone calls the function useEvent returned: handlerRef.current(...args).
StableHandlerCall ==
    /\ ueMounted
    /\ lastCall' = [ran |-> handlerRef, latest |-> ueHandler]
    /\ UNCHANGED <<ueMounted, ueHandler, handlerRef, layoutHandler, layoutDeps,
                   callbackMemo, returnedFns, ueRenders, scrollListeners,
                   scrollEffect, scrollEffectRuns, scrollCalls>>

\* UserActivityLogger's effect runs after a commit whose
\* [handleUserInteraction] differs from the last run's: the cleanup of the
\* last run (removeEventListener), then addEventListener with a new
\* handleScroll.
ScrollEffectRun ==
    /\ layoutHandler = NoHandler
    /\ ScrollEffectPending
    /\ scrollEffectRuns' = scrollEffectRuns + 1
    /\ scrollListeners' = (scrollListeners \ {scrollEffect.listener})
                              \cup {ueRenders}
    /\ scrollEffect' = [deps |-> scrollEffectDeps(callbackMemo.fn, ueHandler),
                        listener |-> ueRenders]
    /\ UNCHANGED <<ueMounted, ueHandler, handlerRef, layoutHandler, layoutDeps,
                   callbackMemo, returnedFns, lastCall, ueRenders, scrollCalls>>

\* The window scrolls: every registered handleScroll calls
\* handleUserInteraction().
ScrollEvent ==
    /\ scrollCalls' = Cardinality(scrollListeners)
    /\ lastCall' = IF scrollListeners = {} THEN lastCall
                   ELSE [ran |-> handlerRef, latest |-> ueHandler]
    /\ UNCHANGED <<ueMounted, ueHandler, handlerRef, layoutHandler, layoutDeps,
                   callbackMemo, returnedFns, ueRenders, scrollListeners,
                   scrollEffect, scrollEffectRuns>>

\* The component instance unmounts; a later mount is a new instance with
\* new hook state.
UseEventUnmount ==
    /\ ueMounted
    /\ layoutHandler = NoHandler
    /\ ~ScrollEffectPending
    /\ scrollListeners' = scrollListeners \ {scrollEffect.listener}
    /\ scrollEffect' = NoScrollEffect
    /\ scrollEffectRuns' = 0
    /\ ueMounted' = FALSE
    /\ ueHandler' = NoHandler
    /\ handlerRef' = NoHandler
    /\ layoutDeps' = <<"unset">>
    /\ callbackMemo' = NoMemo
    /\ returnedFns' = {}
    /\ lastCall' = NoCall
    /\ UNCHANGED <<layoutHandler, ueRenders, scrollCalls>>

UseEventNext ==
    \/ \E handler \in Handlers :
          UseEventRender(handler) /\ UNCHANGED otherUseEventVars
    \/ UseEventLayoutEffect /\ UNCHANGED otherUseEventVars
    \/ StableHandlerCall /\ UNCHANGED otherUseEventVars
    \/ ScrollEffectRun /\ UNCHANGED otherUseEventVars
    \/ ScrollEvent /\ UNCHANGED otherUseEventVars
    \/ UseEventUnmount /\ UNCHANGED otherUseEventVars

(***************************************************************************)
(* Properties of useEvent.                                                 *)
(***************************************************************************)
\* C7: every call of the function useEvent returned runs the handler that
\* was passed to useEvent in the most recent render.
C7_CallsLatestHandler == lastCall.ran = lastCall.latest

\* C8: every render of one component instance gets the same function from
\* useEvent, whatever handlers the renders pass.
C8_StableIdentity == Cardinality(returnedFns) <= 1

\* An instance has rendered three times, the last two renders with handlers
\* other than the one before, and has been handed a function.
C8_Witness ==
    /\ ueMounted
    /\ ueRenders >= 3
    /\ Cardinality(returnedFns) = 1
    /\ handlerRef # NoHandler
    /\ layoutHandler # NoHandler
    /\ layoutHandler # handlerRef

\* C16: over the mounted lifetime of a UserActivityLogger its effect runs
\* once, whatever the re-renders: while it is mounted and its effect has
\* run, one scroll listener is registered (and a scroll calls the handler
\* once), and none is registered when it is not mounted.
C16_OneScrollListener ==
    /\ scrollEffectRuns <= 1
    /\ (ueMounted /\ ~ScrollEffectPending) =>
           /\ scrollEffectRuns = 1
           /\ Cardinality(scrollListeners) = 1
    /\ ~ueMounted => scrollListeners = {}
    /\ scrollCalls <= 1

\* A mounted instance has rendered three times with changing handlers, its
\* effect has run once, and a scroll has called the handler once through
\* the single listener.
C16_Witness ==
    /\ ueMounted
    /\ ueRenders >= 3
    /\ ueHandler # handlerRef
    /\ scrollEffectRuns = 1
    /\ Cardinality(scrollListeners) = 1
    /\ scrollCalls = 1

(***************************************************************************)
(* ProtectedRoutes.                                                        *)
(***************************************************************************)
NoUser == "null"

Users == {"alice", "bob"}

LoginPath == "/auth/login"

ProtectedPaths == {"/dashboard", "/billing"}

NoElement == "none"

\* ProtectedRoutes without its isLoading branch.
ProtectedRoutesNoSpinner(user, isLoading) ==
    IF user = NoUser THEN "Navigate" ELSE "Outlet"

\* The element ProtectedRoutes returns for the context { user, isLoading }.
ProtectedRoutes(user, isLoading) ==
    IF isLoading THEN "FullPageSpinner"
    ELSE IF user = NoUser THEN "Navigate"
    ELSE "Outlet"

Location(h) == h[Len(h)]

\* <Navigate to="/auth/login" replace />: the location's entry is replaced.
NavigateReplace(h, to) == [h EXCEPT ![Len(h)] = to]

\* The route tree renders for context (user, isLoading) and history h: under
\* a protected path ProtectedRoutes renders, and a Navigate element
\* redirects; the login page is outside ProtectedRoutes.
RenderRoutes(user, isLoading, h) ==
    IF Location(h) \in ProtectedPaths
    THEN LET el == ProtectedRoutes(user, isLoading)
         IN  /\ element' = el
             /\ IF el = "Navigate"
                THEN history' = NavigateReplace(h, LoginPath) /\ shown' = "LoginPage"
                ELSE history' = h /\ shown' = el
    ELSE /\ element' = NoElement
         /\ history' = h
         /\ shown' = "LoginPage"

AuthInit ==
    /\ authUser = NoUser
    /\ authLoading = TRUE
    /\ history = <<"/dashboard">>
    /\ element = "FullPageSpinner"
    /\ shown = "FullPageSpinner"

\* The AuthProvider publishes a new context value (a session check ending,
\* a login, a logout) and the routes render again.
AuthContextChange(user, isLoading) ==
    /\ <<user, isLoading>> # <<authUser, authLoading>>
    /\ authUser' = user
    /\ authLoading' = isLoading
    /\ RenderRoutes(user, isLoading, history)

\* The user opens a path (a link, the address bar): pushed on the history.
OpenPath(path) ==
    /\ Len(history) < MaxHistory
    /\ RenderRoutes(authUser, authLoading, Append(history, path))
    /\ UNCHANGED <<authUser, authLoading>>

\* The browser's back button.
GoBack ==
    /\ Len(history) > 1
    /\ RenderRoutes(authUser, authLoading, SubSeq(history, 1, Len(history) - 1))
    /\ UNCHANGED <<authUser, authLoading>>

AuthNext ==
    \/ \E user \in Users \cup {NoUser}, isLoading \in BOOLEAN :
          AuthContextChange(user, isLoading)
             /\ UNCHANGED otherAuthVars
    \/ \E path \in ProtectedPaths \cup {LoginPath} :
          OpenPath(path) /\ UNCHANGED otherAuthVars
    \/ GoBack /\ UNCHANGED otherAuthVars

(***************************************************************************)
(* Properties of ProtectedRoutes.                                          *)
(***************************************************************************)
\* C9: protected content (the Outlet) is on the page only when isLoading is
\* false and user is non-null; with isLoading false and user null the page is
\* the login page at /auth/login; with isLoading true under a protected path
\* the page is the spinner, and ProtectedRoutes returned neither the Outlet
\* nor the redirect.
C9_NoProtectedContentForUnauthorized ==
    /\ (shown = "Outlet" \/ element = "Outlet")
          => (~authLoading /\ authUser # NoUser)
    /\ (~authLoading /\ authUser = NoUser)
          => (Location(history) = LoginPath /\ shown = "LoginPage")
    /\ (authLoading /\ Location(history) \in ProtectedPaths)
          => (shown = "FullPageSpinner" /\ element = "FullPageSpinner")
    /\ (~authLoading /\ authUser # NoUser /\ Location(history) \in ProtectedPaths)
          => shown = "Outlet"

\* With no user and loading over, ProtectedRoutes returned the redirect under
\* the second protected path opened: that entry of the history was replaced
\* by the login path and the login page is shown.
C9_Witness ==
    /\ ~authLoading
    /\ authUser = NoUser
    /\ element = "Navigate"
    /\ history = <<"/dashboard", LoginPath>>
    /\ shown = "LoginPage"

(***************************************************************************)
(* LocalVideoPlayer.  A stream is known by the number of the getUserMedia  *)
(* call that returned it; its tracks are stopped together.                 *)
(***************************************************************************)
NoStream == 0

VideoInit ==
    /\ lvMounted = FALSE
    /\ videoRef = FALSE
    /\ srcObject = NoStream
    /\ streamError = FALSE
    /\ pendingMedia = {}
    /\ tracks = <<>>
    /\ passedUp = {}
    /\ mediaCalls = 0

\* The effect's cleanup: stop every track of localVideoRef.current.srcObject,
\* when there is a current element with a srcObject.
StopTracksOf(ref, src, t) ==
    IF ref /\ src # NoStream
    THEN [s \in DOMAIN t |-> IF s = src THEN "stopped" ELSE t[s]]
    ELSE t

\* Mount: the <video> is rendered, the ref attached, and the effect calls
\* getLocalStream, which awaits getUserMedia.
LvMount ==
    /\ ~lvMounted
    /\ mediaCalls < MaxMediaCalls
    /\ lvMounted' = TRUE
    /\ videoRef' = TRUE
    /\ srcObject' = NoStream
    /\ streamError' = FALSE
    /\ mediaCalls' = mediaCalls + 1
    /\ pendingMedia' = pendingMedia \cup {mediaCalls + 1}
    /\ UNCHANGED <<tracks, passedUp>>

\* getUserMedia resolves for call p with a stream of live tracks; the rest
\* of getLocalStream runs, whether or not the component is still mounted.
GetUserMediaResolves(p) ==
    /\ p \in pendingMedia
    /\ pendingMedia' = pendingMedia \ {p}
    /\ tracks' = Append(tracks, "live")
    /\ srcObject' = IF videoRef THEN Len(tracks) + 1 ELSE srcObject
    /\ passedUp' = passedUp \cup {Len(tracks) + 1}
    /\ UNCHANGED <<lvMounted, videoRef, streamError, mediaCalls>>

\* getUserMedia rejects for call p: setStreamError; a mounted component
\* renders the message in place of the <video>, whose ref becomes null.
GetUserMediaRejects(p) ==
    /\ p \in pendingMedia
    /\ pendingMedia' = pendingMedia \ {p}
    /\ IF lvMounted
       THEN /\ streamError' = TRUE
            /\ videoRef' = FALSE
            /\ srcObject' = NoStream
       ELSE UNCHANGED <<streamError, videoRef, srcObject>>
    /\ UNCHANGED <<lvMounted, tracks, passedUp, mediaCalls>>

\* The parent passes a new onLocalStream: the effect's cleanup runs, then
\* the effect again.
OnLocalStreamChanges ==
    /\ lvMounted
    /\ mediaCalls < MaxMediaCalls
    /\ tracks' = StopTracksOf(videoRef, srcObject, tracks)
    /\ mediaCalls' = mediaCalls + 1
    /\ pendingMedia' = pendingMedia \cup {mediaCalls + 1}
    /\ UNCHANGED <<lvMounted, videoRef, srcObject, streamError, passedUp>>

\* Unmount: the <video> leaves the DOM and the effect's cleanup runs.  React
\* detaches the ref of a removed element either before the cleanup of a
\* passive effect runs (React 17 and later) or after it (React 16).
LvUnmount(refDetachedFirst) ==
    /\ lvMounted
    /\ lvMounted' = FALSE
    /\ tracks' = StopTracksOf(videoRef /\ ~refDetachedFirst, srcObject, tracks)
    /\ videoRef' = FALSE
    /\ srcObject' = NoStream
    /\ UNCHANGED <<streamError, pendingMedia, passedUp, mediaCalls>>

VideoNext ==
    \/ LvMount /\ UNCHANGED otherVideoVars
    \/ \E p \in pendingMedia :
          GetUserMediaResolves(p)
             /\ UNCHANGED otherVideoVars
    \/ \E p \in pendingMedia :
          GetUserMediaRejects(p)
             /\ UNCHANGED otherVideoVars
    \/ OnLocalStreamChanges /\ UNCHANGED otherVideoVars
    \/ \E refDetachedFirst \in BOOLEAN :
          LvUnmount(refDetachedFirst)
             /\ UNCHANGED otherVideoVars

(***************************************************************************)
(* Properties of LocalVideoPlayer.                                         *)
(***************************************************************************)
\* C10: once the component is unmounted and no getUserMedia call is
\* outstanding, every track of every stream it obtained is stopped.
C10_TracksStoppedAfterUnmount ==
    (~lvMounted /\ pendingMedia = {}) =>
        \A s \in DOMAIN tracks : tracks[s] = "stopped"

(***************************************************************************)
(* TodoList.  useOptimistic(initialTodos, reducer) returns initialTodos    *)
(* with the reducer applied for every update queued by an action that is   *)
(* still pending; React's async actions are entangled, so the queued       *)
(* updates are dropped when the last pending action has settled, whether   *)
(* it returned or threw.                                                   *)
(***************************************************************************)
TodoTexts == {"milk", "eggs"}

\* The initialTodos prop; pending is absent (falsy) on a stored todo.
initialTodos == <<[id |-> 0, text |-> "walk", completed |-> TRUE, pending |-> FALSE]>>

\* The reducer passed to useOptimistic, run at time t.
optimisticReducer(state, newTodoText, t) ==
    Append(state, [id |-> t, text |-> newTodoText, completed |-> FALSE,
                   pending |-> TRUE])

RECURSIVE useOptimistic(_, _, _)
\* What useOptimistic returns at a render at time t.
useOptimistic(passthrough, updates, t) ==
    IF updates = <<>> THEN passthrough
    ELSE useOptimistic(optimisticReducer(passthrough, Head(updates), t),
                       Tail(updates), t)

\* The queue of optimistic updates, were it kept when the actions are over.
keepUpdates(updates, stillPending) == updates

\* The queue of optimistic updates after an action has settled with
\* stillPending actions left.
settleUpdates(updates, stillPending) ==
    IF stillPending = 0 THEN <<>> ELSE updates

TodoInit ==
    /\ optimisticTodos = initialTodos
    /\ todoUpdates = <<>>
    /\ todoPending = <<>>
    /\ todoOutcomes = {}
    /\ todoSubmits = 0
    /\ todoNow = 0

\* The form is submitted: the form action runs up to its await
\* (addOptimisticTodo(todoText), then addTodoAction is called) and the
\* component renders again.
SubmitTodo(todoText) ==
    /\ todoSubmits < MaxSubmits
    /\ todoSubmits' = todoSubmits + 1
    /\ todoUpdates' = Append(todoUpdates, todoText)
    /\ todoPending' = Append(todoPending,
                             [text |-> todoText, n |-> todoSubmits + 1,
                              before |-> optimisticTodos])
    /\ optimisticTodos' = useOptimistic(initialTodos, todoUpdates', todoNow)
    /\ UNCHANGED <<todoOutcomes, todoNow>>

\* addTodoAction settles and the form action with it; nothing has changed
\* initialTodos (addTodoAction saves nothing and revalidates nothing).
AddTodoActionSettles(k, outcome) ==
    /\ todoPending' = RemoveAt(todoPending, k)
    /\ todoUpdates' = settleUpdates(todoUpdates, Len(todoPending'))
    /\ optimisticTodos' = useOptimistic(initialTodos, todoUpdates', todoNow)
    /\ todoOutcomes' = todoOutcomes \cup
           {[text |-> todoPending[k].text, n |-> todoPending[k].n,
             before |-> todoPending[k].before, outcome |-> outcome]}
    /\ UNCHANGED <<todoSubmits, todoNow>>

\* addTodoAction returns.
AddTodoActionReturns(k) == AddTodoActionSettles(k, "returned")

\* addTodoAction throws new Error('Failed to add todo!').
AddTodoActionThrows(k) == AddTodoActionSettles(k, "threw")

TodoTick ==
    /\ todoNow < MaxTodoClock
    /\ todoNow' = todoNow + 1
    /\ UNCHANGED <<optimisticTodos, todoUpdates, todoPending, todoOutcomes,
                   todoSubmits>>

TodoNext ==
    \/ \E todoText \in TodoTexts : SubmitTodo(todoText) /\ UNCHANGED otherTodoVars
    \/ \E k \in 1..Len(todoPending) : AddTodoActionReturns(k) /\ UNCHANGED otherTodoVars
    \/ \E k \in 1..Len(todoPending) : AddTodoActionThrows(k) /\ UNCHANGED otherTodoVars
    \/ TodoTick /\ UNCHANGED otherTodoVars

(***************************************************************************)
(* Properties of TodoList.                                                 *)
(***************************************************************************)
\* The stored todos of a list: those not marked pending.
StoredTodos(list) == SelectSeq(list, LAMBDA todo : ~todo.pending)

C12_ConfirmedTodoStays ==
    \A o \in todoOutcomes :
        o.outcome = "returned" =>
            \E i \in 1..Len(optimisticTodos) : optimisticTodos[i].text = o.text

(***************************************************************************)
(* BookingPage.  The page polls /api/trips/<id>/status while the trip is   *)
(* confirmed or on its route and stores what the API answers.              *)
(***************************************************************************)
\* The values of TripDetails['status'].
TripStatuses == {"pending", "confirmed", "on-route", "completed"}

\* What the status API can answer: the JSON of a response is not checked
\* against TripDetails (types are erased at run time).
ApiStatuses == TripStatuses \cup {"onRoute"}

NoDriver == "undefined"

ApiDrivers == {NoDriver, "Asha"}

TripIds == {"TRIP123"}

NoEffect == [deps |-> <<"unset">>, interval |-> 0]

\* A dependency array of the trip's id alone.
bookingDepsIdOnly(t) == <<t.id>>

\* The effect's dependency array.
bookingDeps(t) == <<t.id, t.status>>

\* The updater passed to setTrip.
setTripUpdater(prev, updatedStatus) ==
    [prev EXCEPT !.status = updatedStatus.status,
                 !.driverInfo = IF updatedStatus.driverInfo # NoDriver
                                THEN updatedStatus.driverInfo
                                ELSE prev.driverInfo]

BookingInit ==
    /\ bkMounted = FALSE
    /\ trip = [id |-> "TRIP123", status |-> "pending", driverInfo |-> NoDriver]
    /\ bkLoading = FALSE
    /\ bkIntervals = {}
    /\ bkEffect = NoEffect
    /\ bkFetches = <<>>
    /\ bkNextInterval = 1
    /\ bkPolls = 0
    /\ bkMounts = 0

\* The page mounts with the initialTripData getServerSideProps fetched.
BkMount(initialTripData) ==
    /\ ~bkMounted
    /\ bkMounts < MaxBkMounts
    /\ bkMounts' = bkMounts + 1
    /\ bkMounted' = TRUE
    /\ trip' = initialTripData
    /\ bkLoading' = FALSE
    /\ bkEffect' = NoEffect
    /\ UNCHANGED <<bkIntervals, bkFetches, bkNextInterval, bkPolls>>

\* The effect runs after a commit whose [trip.id, trip.status] differs from
\* the last run's: the cleanup of the last run, then the body.
BkEffectRun ==
    /\ bkMounted
    /\ bkEffect.deps # bookingDeps(trip)
    /\ IF trip.status = "confirmed" \/ trip.status = "on-route"
       THEN /\ bkIntervals' = (bkIntervals \ {bkEffect.interval}) \cup {bkNextInterval}
            /\ bkEffect' = [deps |-> bookingDeps(trip), interval |-> bkNextInterval]
            /\ bkNextInterval' = bkNextInterval + 1
       ELSE /\ bkIntervals' = bkIntervals \ {bkEffect.interval}
            /\ bkEffect' = [deps |-> bookingDeps(trip), interval |-> 0]
            /\ UNCHANGED bkNextInterval
    /\ UNCHANGED <<bkMounted, trip, bkLoading, bkFetches, bkPolls, bkMounts>>

\* An active interval fires: fetchLiveUpdates runs up to await fetch(...).
BkIntervalFires(interval) ==
    /\ interval \in bkIntervals
    /\ bkPolls < MaxPolls
    /\ bkPolls' = bkPolls + 1
    /\ bkLoading' = TRUE
    /\ bkFetches' = Append(bkFetches, [id |-> trip.id, stage |-> "fetch"])
    /\ UNCHANGED <<bkMounted, trip, bkIntervals, bkEffect, bkNextInterval, bkMounts>>

\* fetch resolves with a response: fetchLiveUpdates runs up to
\* await response.json().
BkFetchResolves(k) ==
    /\ bkFetches[k].stage = "fetch"
    /\ bkFetches' = [bkFetches EXCEPT ![k].stage = "json"]
    /\ UNCHANGED <<bkMounted, trip, bkLoading, bkIntervals, bkEffect,
                   bkNextInterval, bkPolls, bkMounts>>

\* fetch or response.json() rejects: fetchLiveUpdates ends there, its
\* promise rejected and unhandled; setLoading(false) is not reached.
BkFetchRejects(k) ==
    /\ bkFetches' = RemoveAt(bkFetches, k)
    /\ UNCHANGED <<bkMounted, trip, bkLoading, bkIntervals, bkEffect,
                   bkNextInterval, bkPolls, bkMounts>>

\* response.json() resolves with updatedStatus: setTrip(updater) and
\* setLoading(false); a state update of an unmounted component is dropped.
BkJsonResolves(k, updatedStatus) ==
    /\ bkFetches[k].stage = "json"
    /\ bkFetches' = RemoveAt(bkFetches, k)
    /\ trip' = IF bkMounted THEN setTripUpdater(trip, updatedStatus) ELSE trip
    /\ bkLoading' = IF bkMounted THEN FALSE ELSE bkLoading
    /\ UNCHANGED <<bkMounted, bkIntervals, bkEffect, bkNextInterval, bkPolls,
                   bkMounts>>

\* The page unmounts: the cleanup of the last effect run.
BkUnmount ==
    /\ bkMounted
    /\ bkEffect.deps = bookingDeps(trip)
    /\ bkMounted' = FALSE
    /\ bkIntervals' = bkIntervals \ {bkEffect.interval}
    /\ bkEffect' = NoEffect
    /\ UNCHANGED <<trip, bkLoading, bkFetches, bkNextInterval, bkPolls, bkMounts>>

BookingNext ==
    \/ \E id \in TripIds, status \in TripStatuses, driverInfo \in ApiDrivers :
          BkMount([id |-> id, status |-> status, driverInfo |-> driverInfo])
             /\ UNCHANGED otherBookingVars
    \/ BkEffectRun /\ UNCHANGED otherBookingVars
    \/ \E interval \in bkIntervals : BkIntervalFires(interval) /\ UNCHANGED otherBookingVars
    \/ \E k \in 1..Len(bkFetches) : BkFetchResolves(k) /\ UNCHANGED otherBookingVars
    \/ \E k \in 1..Len(bkFetches) : BkFetchRejects(k) /\ UNCHANGED otherBookingVars
    \/ \E k \in 1..Len(bkFetches), status \in ApiStatuses, driverInfo \in ApiDrivers :
          BkJsonResolves(k, [status |-> status, driverInfo |-> driverInfo])
             /\ UNCHANGED otherBookingVars
    \/ BkUnmount /\ UNCHANGED otherBookingVars

(***************************************************************************)
(* Properties of BookingPage.                                              *)
(***************************************************************************)
\* C13: the status of the trip state is always one of 'pending',
\* 'confirmed', 'on-route', 'completed', whatever the status API answers.
C13_StatusInTripStatuses == trip.status \in TripStatuses

UserIds == {"u1", "u2"}

Undefined == <<"undefined">>

\* What fetch(url) can do: resolve with a response, or reject.
FetchOutcomes ==
    {[kind |-> "response", ok |-> TRUE, status |-> <<"200">>],
     [kind |-> "response", ok |-> FALSE, status |-> <<"404">>],
     [kind |-> "response", ok |-> FALSE, status |-> <<"500">>],
     [kind |-> "reject", ok |-> FALSE, status |-> <<"TypeError: Failed to fetch">>]}

\* What response.json() can do: resolve with the parsed body, or reject.
JsonOutcomes ==
    {[kind |-> "data", value |-> <<"alice">>],
     [kind |-> "data", value |-> <<"bob">>],
     [kind |-> "reject", value |-> <<"SyntaxError: Unexpected token">>]}

NoWorld == [userId |-> "none", fetch |-> [kind |-> "none"], json |-> [kind |-> "none"]]

Pending == [state |-> "pending", value |-> Undefined]

\* new Error(`HTTP error! Status: ${response.status}`)
HttpError(response) == <<"HTTP error! Status: ">> \o response.status

\* A .catch handler that logs and returns: the chain's promise is fulfilled
\* with undefined.
promisesCatchNoRethrow(error) == [state |-> "fulfilled", value |-> Undefined]

\* The .catch handler of fetchDataWithPromises, after its console.error:
\* throw error.
promisesCatch(error) == [state |-> "rejected", value |-> error]

\* The catch block of fetchDataWithAsyncAwait, after its console.error:
\* throw error.
asyncCatch(error) == [state |-> "rejected", value |-> error]

ErrorLine(label, error) == [level |-> "error", label |-> label, value |-> error]

LogLine(label, data) == [level |-> "log", label |-> label, value |-> data]

FetchInit ==
    /\ fdWorld = NoWorld
    /\ pPc = "idle"
    /\ pCarry = Undefined
    /\ pResult = Pending
    /\ pLog = <<>>
    /\ aPc = "idle"
    /\ aResult = Pending
    /\ aLog = <<>>

\* Both functions are called with userId: each calls fetch and returns its
\* promise.
FetchDataCall(userId, f, j) ==
    /\ fdWorld = NoWorld
    /\ fdWorld' = [userId |-> userId, fetch |-> f, json |-> j]
    /\ pPc' = "then1"
    /\ aPc' = "await fetch"
    /\ UNCHANGED <<pCarry, pResult, pLog, aResult, aLog>>

\* fetchDataWithPromises: fetch has settled.  Fulfilled: the first .then
\* handler runs.  Rejected: both .then are passed over.
PromisesThen1 ==
    /\ pPc = "then1"
    /\ IF fdWorld.fetch.kind = "reject"
       THEN pPc' = "catch" /\ pCarry' = fdWorld.fetch.status
       ELSE IF ~fdWorld.fetch.ok
            THEN pPc' = "catch" /\ pCarry' = HttpError(fdWorld.fetch)
            ELSE pPc' = "json" /\ UNCHANGED pCarry
    /\ UNCHANGED <<fdWorld, pResult, pLog, aPc, aResult, aLog>>

\* fetchDataWithPromises: the promise response.json() returned has settled.
PromisesJsonSettles ==
    /\ pPc = "json"
    /\ pCarry' = fdWorld.json.value
    /\ pPc' = IF fdWorld.json.kind = "reject" THEN "catch" ELSE "then2"
    /\ UNCHANGED <<fdWorld, pResult, pLog, aPc, aResult, aLog>>

\* fetchDataWithPromises: the second .then handler logs and returns data;
\* .catch passes the value on.
PromisesThen2 ==
    /\ pPc = "then2"
    /\ pLog' = Append(pLog, LogLine("Promises", pCarry))
    /\ pResult' = [state |-> "fulfilled", value |-> pCarry]
    /\ pPc' = "done"
    /\ UNCHANGED <<fdWorld, pCarry, aPc, aResult, aLog>>

\* fetchDataWithPromises: the .catch handler.
PromisesCatch ==
    /\ pPc = "catch"
    /\ pLog' = Append(pLog, ErrorLine("Promises", pCarry))
    /\ pResult' = promisesCatch(pCarry)
    /\ pPc' = "done"
    /\ UNCHANGED <<fdWorld, pCarry, aPc, aResult, aLog>>

\* fetchDataWithAsyncAwait resumes from await fetch(...): a rejection or a
\* response that is not ok goes to the catch block.
AsyncAfterFetch ==
    /\ aPc = "await fetch"
    /\ IF fdWorld.fetch.kind = "reject"
       THEN /\ aLog' = Append(aLog, ErrorLine("Async/Await", fdWorld.fetch.status))
            /\ aResult' = asyncCatch(fdWorld.fetch.status)
            /\ aPc' = "done"
       ELSE IF ~fdWorld.fetch.ok
            THEN /\ aLog' = Append(aLog, ErrorLine("Async/Await", HttpError(fdWorld.fetch)))
                 /\ aResult' = asyncCatch(HttpError(fdWorld.fetch))
                 /\ aPc' = "done"
            ELSE /\ aPc' = "await json"
                 /\ UNCHANGED <<aLog, aResult>>
    /\ UNCHANGED <<fdWorld, pPc, pCarry, pResult, pLog>>

\* fetchDataWithAsyncAwait resumes from await response.json().
AsyncAfterJson ==
    /\ aPc = "await json"
    /\ IF fdWorld.json.kind = "reject"
       THEN /\ aLog' = Append(aLog, ErrorLine("Async/Await", fdWorld.json.value))
            /\ aResult' = asyncCatch(fdWorld.json.value)
       ELSE /\ aLog' = Append(aLog, LogLine("Async/Await", fdWorld.json.value))
            /\ aResult' = [state |-> "fulfilled", value |-> fdWorld.json.value]
    /\ aPc' = "done"
    /\ UNCHANGED <<fdWorld, pPc, pCarry, pResult, pLog>>

FetchNext ==
    \/ \E userId \in UserIds, f \in FetchOutcomes, j \in JsonOutcomes :
          FetchDataCall(userId, f, j) /\ UNCHANGED otherFetchVars
    \/ PromisesThen1 /\ UNCHANGED otherFetchVars
    \/ PromisesJsonSettles /\ UNCHANGED otherFetchVars
    \/ PromisesThen2 /\ UNCHANGED otherFetchVars
    \/ PromisesCatch /\ UNCHANGED otherFetchVars
    \/ AsyncAfterFetch /\ UNCHANGED otherFetchVars
    \/ AsyncAfterJson /\ UNCHANGED otherFetchVars

(***************************************************************************)
(* Properties of the two fetchData functions.                              *)
(***************************************************************************)
\* What a function wrote, less the label that names the function.
Unlabelled(log) == [i \in 1..Len(log) |-> [level |-> log[i].level, value |-> log[i].value]]

\* C14: once both promises have settled they have settled the same way,
\* fulfilled with the same data or rejected with the same error; a failure
\* (fetch rejected, response not ok, json rejected) rejects both, and each
\* function has then logged that one error once and nothing else.
C14_SameOutcome ==
    (pResult.state # "pending" /\ aResult.state # "pending") =>
        /\ pResult = aResult
        /\ Unlabelled(pLog) = Unlabelled(aLog)
        /\ Len(pLog) = 1
        /\ IF fdWorld.fetch.kind = "response" /\ fdWorld.fetch.ok
              /\ fdWorld.json.kind = "data"
           THEN /\ pResult = [state |-> "fulfilled", value |-> fdWorld.json.value]
                /\ pLog[1].level = "log"
           ELSE /\ pResult.state = "rejected"
                /\ pLog[1] = ErrorLine("Promises", pResult.value)
                /\ aLog[1] = ErrorLine("Async/Await", aResult.value)

\* Both functions were called where the response is 404 and both promises
\* are rejected with the HTTP error.
C14_Witness ==
    /\ fdWorld.fetch.kind = "response"
    /\ fdWorld.fetch.status = <<"404">>
    /\ pResult = [state |-> "rejected", value |-> <<"HTTP error! Status: ", "404">>]
    /\ aResult = pResult

(***************************************************************************)
(* FilterProvider and HaubeLinkToInvoiceList.  A URLSearchParams is the    *)
(* list of its <<key, value>> pairs in order (a key may repeat); a string  *)
(* such as the search of a location is the sequence of its parts.          *)
(***************************************************************************)
ParamKeys == {"status", "sort"}

ParamValues == {"paid", "draft"}

\* An override value that is undefined, and one that is null.
UndefinedValue == "undefined"

NullValue == "null"

\* The overrideFilters prop left out.
NoOverride == <<<<"no overrideFilters">>>>

RECURSIVE ParamLists(_)
\* The lists of at most n pairs.
ParamLists(n) ==
    IF n = 0 THEN {<<>>}
    ELSE LET shorter == ParamLists(n - 1)
         IN  shorter \cup {Append(l, <<k, v>>) :
                             l \in {s \in shorter : Len(s) = n - 1},
                             k \in ParamKeys, v \in ParamValues}

\* URLSearchParams.delete(key): every pair of that key goes.
paramsDelete(params, key) == SelectSeq(params, LAMBDA p : p[1] # key)

\* The index of the first pair of key, or 0.
FirstOf(params, key) ==
    IF \E i \in 1..Len(params) : params[i][1] = key
    THEN CHOOSE i \in 1..Len(params) :
            /\ params[i][1] = key
            /\ \A j \in 1..(i - 1) : params[j][1] # key
    ELSE 0

\* URLSearchParams.set(key, value): the first pair of the key gets the
\* value and the key's other pairs go; a new key is appended.
paramsSet(params, key, value) ==
    LET first == FirstOf(params, key)
    IN  IF first = 0 THEN Append(params, <<key, value>>)
        ELSE SubSeq(params, 1, first - 1) \o <<<<key, value>>>>
             \o paramsDelete(SubSeq(params, first + 1, Len(params)), key)

RECURSIVE paramsToString(_)
\* URLSearchParams.toString(): key=value joined by &.
paramsToString(params) ==
    IF params = <<>> THEN <<>>
    ELSE <<params[1][1], "=", params[1][2]>>
         \o (IF Len(params) > 1 THEN <<"&">> ELSE <<>>)
         \o paramsToString(Tail(params))

RECURSIVE CopyParams(_, _)
\* currentSearchParams.forEach((value, key) => targetSearchParams.set(key, value))
CopyParams(current, target) ==
    IF current = <<>> THEN target
    ELSE CopyParams(Tail(current), paramsSet(target, current[1][1], current[1][2]))

RECURSIVE ApplyOverrides(_, _)
\* Object.entries(overrideFilters).forEach(...): delete the key of a null or
\* undefined value, set any other to String(value).
ApplyOverrides(entries, target) ==
    IF entries = <<>> THEN target
    ELSE ApplyOverrides(Tail(entries),
            IF entries[1][2] = NullValue \/ entries[1][2] = UndefinedValue
            THEN paramsDelete(target, entries[1][1])
            ELSE paramsSet(target, entries[1][1], entries[1][2]))

\* The `to` HaubeLinkToInvoiceList hands to Link.
HaubeLinkTo(currentSearchParams, overrideFilters, clearFilters) ==
    LET started == IF ~clearFilters THEN CopyParams(currentSearchParams, <<>>)
                   ELSE <<>>
        targetSearchParams ==
            IF overrideFilters # NoOverride
            THEN ApplyOverrides(overrideFilters, started)
            ELSE started
    IN  [pathname |-> "/invoices", search |-> paramsToString(targetSearchParams)]

\* The overrideFilters props the pages pass.
OverrideProps ==
    {NoOverride,
     <<<<"status", "paid">>, <<"sort", UndefinedValue>>>>,
     <<<<"sort", NullValue>>>>}

NoLinkRender ==
    [overrideFilters |-> NoOverride, clearFilters |-> FALSE, from |-> <<>>,
     to |-> [pathname |-> "none", search |-> <<>>]]

LinkInit ==
    /\ searchParams = <<>>
    /\ linkRender = NoLinkRender

\* A render of the link with these props where the current search
\* parameters are params.
LinkRendered(params, overrideFilters, clearFilters) ==
    [overrideFilters |-> overrideFilters,
     clearFilters |-> clearFilters,
     from |-> params,
     to |-> HaubeLinkTo(params, overrideFilters, clearFilters)]

\* The browser is at a URL with these search parameters: typed, bookmarked
\* or followed from anywhere.  The context value changes and a link on
\* the page renders again.
OpenUrl(params) ==
    /\ searchParams' = params
    /\ linkRender' = IF linkRender = NoLinkRender THEN linkRender
                     ELSE LinkRendered(params, linkRender.overrideFilters,
                                       linkRender.clearFilters)

\* A page renders <HaubeLinkToInvoiceList> with these props.
RenderLink(overrideFilters, clearFilters) ==
    /\ linkRender' = LinkRendered(searchParams, overrideFilters, clearFilters)
    /\ UNCHANGED searchParams

LinkNext ==
    \/ \E params \in ParamLists(MaxParams) : OpenUrl(params) /\ UNCHANGED otherLinkVars
    \/ \E overrideFilters \in OverrideProps, clearFilters \in BOOLEAN :
          RenderLink(overrideFilters, clearFilters) /\ UNCHANGED otherLinkVars

(***************************************************************************)
(* Properties of HaubeLinkToInvoiceList.                                   *)
(***************************************************************************)
\* C15: the link rendered without overrideFilters and with clearFilters
\* false has pathname '/invoices' and, as its search, the string of the
\* current search parameters: every pair of them, key and value.
C15_LinksToCurrentList ==
    (linkRender # NoLinkRender /\ linkRender.overrideFilters = NoOverride
        /\ ~linkRender.clearFilters) =>
        /\ linkRender.to.pathname = "/invoices"
        /\ linkRender.to.search = paramsToString(linkRender.from)

\* What the link's documentation gives as its target parameters: the
\* current search parameters, or none when clearFilters is true, and then
\* for each entry of overrideFilters the key deleted when the value is null
\* or undefined and set to the value otherwise.
DocumentedTarget(render) ==
    LET start == IF render.clearFilters THEN <<>> ELSE render.from
    IN  IF render.overrideFilters = NoOverride THEN start
        ELSE ApplyOverrides(render.overrideFilters, start)

\* C22: the target parameters of a rendered link are the current search
\* parameters (none when clearFilters is true) with every entry of
\* overrideFilters applied: a null or undefined value deletes its key, any
\* other value is set.  With clearFilters and the overrides
\* {status: 'paid', sort: undefined} the target is exactly status=paid.
C22_TargetParameters ==
    linkRender # NoLinkRender =>
        /\ linkRender.to.search = paramsToString(DocumentedTarget(linkRender))
        /\ (linkRender.clearFilters
              /\ linkRender.overrideFilters
                    = <<<<"status", "paid">>, <<"sort", UndefinedValue>>>>) =>
                linkRender.to.search = <<"status", "=", "paid">>

(***************************************************************************)
(* BetterTimer.  An interval is known by the id setInterval returned; the  *)
(* timer system runs the callback of an interval only while the interval   *)
(* has not been cleared.                                                   *)
(***************************************************************************)
\* The effect without a cleanup (BadTimer): the interval stays.
badTimerCleanup(intervals, intervalId) == intervals

\* The cleanup of BetterTimer's effect: clearInterval(intervalId).
betterTimerCleanup(intervals, intervalId) == intervals \ {intervalId}

TimerInit ==
    /\ btMounted = FALSE
    /\ seconds = 0
    /\ btIntervals = {}
    /\ btEffect = 0
    /\ btNextInterval = 1
    /\ btMounts = 0
    /\ btLateTick = FALSE
    /\ btShown = 0

\* BetterTimer mounts: useState(0); its effect is yet to run.
BtMount ==
    /\ ~btMounted
    /\ btMounts < MaxBtMounts
    /\ btMounts' = btMounts + 1
    /\ btMounted' = TRUE
    /\ seconds' = 0
    /\ btEffect' = 0
    /\ btShown' = 0
    /\ UNCHANGED <<btIntervals, btNextInterval, btLateTick>>

\* The effect runs after the first commit (dependencies []): setInterval.
BtEffectRun ==
    /\ btMounted
    /\ btEffect = 0
    /\ btEffect' = btNextInterval
    /\ btIntervals' = btIntervals \cup {btNextInterval}
    /\ btNextInterval' = btNextInterval + 1
    /\ UNCHANGED <<btMounted, seconds, btMounts, btLateTick, btShown>>

\* An interval that has not been cleared fires: setSeconds(prev => prev + 1)
\* of the instance that started it.
BtIntervalFires(intervalId) ==
    /\ intervalId \in btIntervals
    /\ seconds < MaxSeconds
    /\ IF btMounted /\ intervalId = btEffect
       THEN seconds' = seconds + 1 /\ UNCHANGED btLateTick
       ELSE btLateTick' = TRUE /\ UNCHANGED seconds
    /\ UNCHANGED <<btMounted, btIntervals, btEffect, btNextInterval, btMounts,
                   btShown>>

\* The component renders again with the updates setSeconds queued:
\* <p>Timer: {seconds}s</p>.
BtRender ==
    /\ btMounted
    /\ btShown # seconds
    /\ btShown' = seconds
    /\ UNCHANGED <<btMounted, seconds, btIntervals, btEffect, btNextInterval,
                   btMounts, btLateTick>>

\* BetterTimer unmounts, its effect having run: the cleanup.
BtUnmount ==
    /\ btMounted
    /\ btEffect # 0
    /\ btMounted' = FALSE
    /\ btIntervals' = betterTimerCleanup(btIntervals, btEffect)
    /\ btEffect' = 0
    /\ UNCHANGED <<seconds, btNextInterval, btMounts, btLateTick, btShown>>

TimerNext ==
    \/ BtMount /\ UNCHANGED otherTimerVars
    \/ BtEffectRun /\ UNCHANGED otherTimerVars
    \/ \E intervalId \in btIntervals : BtIntervalFires(intervalId) /\ UNCHANGED otherTimerVars
    \/ BtRender /\ UNCHANGED otherTimerVars
    \/ BtUnmount /\ UNCHANGED otherTimerVars

(***************************************************************************)
(* Properties of BetterTimer.                                              *)
(***************************************************************************)
\* C17: while BetterTimer is mounted and its effect has run, exactly one
\* interval is active, its own; when it is not mounted no interval is
\* active, and no tick has called setSeconds after the unmount.
C17_IntervalClearedOnUnmount ==
    /\ (btMounted /\ btEffect # 0) => btIntervals = {btEffect}
    /\ ~btMounted => btIntervals = {}
    /\ ~btLateTick

\* A timer that has ticked was unmounted, and no interval is left.
C17_Witness ==
    /\ ~btMounted
    /\ btMounts >= 1
    /\ seconds >= 1
    /\ btIntervals = {}

(***************************************************************************)
(* useWebRTC in LiveStreamComponent, one instance per peer, over a         *)
(* signaling channel that forwards what a peer emits to the other peer's   *)
(* handler of that event.  A stream is known by the peer whose camera it   *)
(* is.  ICE candidates are left out.                                       *)
(***************************************************************************)
Peers == {1, 2}

Other(p) == 3 - p

NoDesc == [type |-> "none", from |-> 0, stream |-> NoStream]

NoPc == [signaling |-> "none", local |-> NoDesc, remote |-> NoDesc,
         currentRemote |-> NoDesc, senders |-> NoStream]

NoAnswering == [desc |-> NoDesc, senders |-> NoStream, closed |-> FALSE]

NoView == [video |-> FALSE, srcObject |-> NoStream, dep |-> NoStream]

\* createPeerConnection(): a new connection with the tracks of localStream.
createPeerConnection(localStream) ==
    [signaling |-> "stable", local |-> NoDesc, remote |-> NoDesc,
     currentRemote |-> NoDesc, senders |-> localStream]

\* The condition under which the 'answer' handler applies an answer:
\* peerConnectionRef.current && peerConnectionRef.current.currentRemoteDescription
answerGuard(pc) == pc # NoPc /\ pc.currentRemote # NoDesc

\* The srcObject of the remote <video> after a commit.  The element exists
\* only while isCalling; the effect runs when remoteStream differs from the
\* last run's and sets srcObject if the element and the stream exist.
remoteEffect(view, video, remoteStream) ==
    IF video /\ remoteStream # view.dep /\ remoteStream # NoStream
    THEN remoteStream
    ELSE IF video /\ view.video THEN view.srcObject ELSE NoStream

RtcInit ==
    /\ rtcLocal = [p \in Peers |-> NoStream]
    /\ rtcPc = [p \in Peers |-> NoPc]
    /\ rtcRemoteStream = [p \in Peers |-> NoStream]
    /\ rtcCalling = [p \in Peers |-> FALSE]
    /\ rtcAnswering = [p \in Peers |-> NoAnswering]
    /\ rtcChannel = {}
    /\ rtcView = [p \in Peers |-> NoView]
    /\ rtcHandled = {}
    /\ rtcCalls = 0

\* LocalVideoPlayer hands its stream up: setLocalStream(stream).
\* createPeerConnection changes with localStream, so the hook's effect runs
\* again: its cleanup closes the connection the ref holds.
SetLocalStream(p) ==
    /\ rtcLocal[p] = NoStream
    /\ rtcLocal' = [rtcLocal EXCEPT ![p] = p]
    /\ rtcPc' = [rtcPc EXCEPT ![p] =
                    IF rtcPc[p] = NoPc THEN NoPc
                    ELSE [rtcPc[p] EXCEPT !.signaling = "closed"]]
    /\ rtcAnswering' = [rtcAnswering EXCEPT ![p] =
                    IF rtcAnswering[p] = NoAnswering THEN NoAnswering
                    ELSE [rtcAnswering[p] EXCEPT !.closed = TRUE]]
    /\ UNCHANGED <<rtcRemoteStream, rtcCalling, rtcChannel, rtcView,
                   rtcHandled, rtcCalls>>

\* The Start Call button (shown while !isCalling && localStream):
\* startCall creates a connection, sets its offer as local description and
\* emits it.
StartCall(p) ==
    /\ rtcCalls < MaxCalls
    /\ rtcLocal[p] # NoStream
    /\ ~rtcCalling[p]
    /\ rtcCalls' = rtcCalls + 1
    /\ LET pc == createPeerConnection(rtcLocal[p])
           offer == [type |-> "offer", from |-> p, stream |-> pc.senders]
       IN  /\ rtcPc' = [rtcPc EXCEPT ![p] =
                           [pc EXCEPT !.local = offer,
                                      !.signaling = "have-local-offer"]]
           /\ rtcChannel' = rtcChannel \cup
                  {[to |-> Other(p), event |-> "offer", desc |-> offer,
                    n |-> rtcCalls + 1]}
    /\ UNCHANGED <<rtcLocal, rtcRemoteStream, rtcCalling, rtcAnswering,
                   rtcView, rtcHandled>>

\* The 'offer' handler up to the end of setRemoteDescription: it creates a
\* connection if the ref holds none; a closed connection rejects the offer,
\* one that has sent an offer itself rejects it or rolls its own back (the
\* browsers differ); the tracks of an accepted offer reach pc.ontrack,
\* which calls setRemoteStream.
OnOfferStart(p, m, accepted) ==
    /\ m \in rtcChannel
    /\ m.to = p
    /\ m.event = "offer"
    /\ rtcAnswering[p] = NoAnswering
    /\ rtcChannel' = rtcChannel \ {m}
    /\ LET pc == IF rtcPc[p] = NoPc THEN createPeerConnection(rtcLocal[p])
                 ELSE rtcPc[p]
       IN  /\ accepted => pc.signaling # "closed"
           /\ ~accepted => pc.signaling \in {"closed", "have-local-offer"}
           /\ IF accepted
              THEN /\ rtcPc' = [rtcPc EXCEPT ![p] =
                                   [pc EXCEPT !.signaling = "have-remote-offer",
                                              !.local = NoDesc,
                                              !.remote = m.desc]]
                   /\ rtcRemoteStream' =
                         IF m.desc.stream # NoStream
                         THEN [rtcRemoteStream EXCEPT ![p] = m.desc.stream]
                         ELSE rtcRemoteStream
                   /\ rtcAnswering' = [rtcAnswering EXCEPT ![p] =
                         [desc |-> m.desc, senders |-> pc.senders,
                          closed |-> FALSE]]
                   /\ UNCHANGED rtcHandled
              ELSE /\ rtcPc' = [rtcPc EXCEPT ![p] = pc]
                   /\ rtcHandled' = rtcHandled \cup
                         {[peer |-> p, event |-> "offer", result |-> "rejected"]}
                   /\ UNCHANGED <<rtcRemoteStream, rtcAnswering>>
    /\ UNCHANGED <<rtcLocal, rtcCalling, rtcView, rtcCalls>>

\* The rest of the 'offer' handler: createAnswer, setLocalDescription,
\* emit('answer'), setIsCalling(true); on a connection closed meanwhile
\* createAnswer rejects and the handler ends.
OnOfferFinish(p) ==
    /\ rtcAnswering[p] # NoAnswering
    /\ rtcAnswering' = [rtcAnswering EXCEPT ![p] = NoAnswering]
    /\ IF rtcAnswering[p].closed
       THEN /\ rtcHandled' = rtcHandled \cup
                  {[peer |-> p, event |-> "offer", result |-> "rejected"]}
            /\ UNCHANGED <<rtcPc, rtcChannel, rtcCalling>>
       ELSE LET answer == [type |-> "answer", from |-> p,
                           stream |-> rtcAnswering[p].senders]
            IN  /\ rtcPc' = [rtcPc EXCEPT ![p] =
                       IF rtcPc[p].signaling = "have-remote-offer"
                          /\ rtcPc[p].remote = rtcAnswering[p].desc
                       THEN [rtcPc[p] EXCEPT !.signaling = "stable",
                                             !.local = answer,
                                             !.currentRemote = rtcPc[p].remote]
                       ELSE rtcPc[p]]
                /\ rtcChannel' = rtcChannel \cup
                       {[to |-> Other(p), event |-> "answer", desc |-> answer,
                         n |-> 0]}
                /\ rtcCalling' = [rtcCalling EXCEPT ![p] = TRUE]
                /\ rtcHandled' = rtcHandled \cup
                       {[peer |-> p, event |-> "offer", result |-> "answered"]}
    /\ UNCHANGED <<rtcLocal, rtcRemoteStream, rtcView, rtcCalls>>

\* The 'answer' handler: under its guard setRemoteDescription(answer), which
\* only a connection that awaits an answer accepts, then setIsCalling(true).
OnAnswer(p, m) ==
    /\ m \in rtcChannel
    /\ m.to = p
    /\ m.event = "answer"
    /\ rtcChannel' = rtcChannel \ {m}
    /\ IF ~answerGuard(rtcPc[p])
       THEN /\ rtcHandled' = rtcHandled \cup
                  {[peer |-> p, event |-> "answer", result |-> "skipped"]}
            /\ UNCHANGED <<rtcPc, rtcRemoteStream, rtcCalling>>
       ELSE IF rtcPc[p].signaling # "have-local-offer"
            THEN /\ rtcHandled' = rtcHandled \cup
                       {[peer |-> p, event |-> "answer", result |-> "rejected"]}
                 /\ UNCHANGED <<rtcPc, rtcRemoteStream, rtcCalling>>
            ELSE /\ rtcPc' = [rtcPc EXCEPT ![p] =
                        [rtcPc[p] EXCEPT !.signaling = "stable",
                                         !.remote = m.desc,
                                         !.currentRemote = m.desc]]
                 /\ rtcRemoteStream' =
                       IF m.desc.stream # NoStream
                       THEN [rtcRemoteStream EXCEPT ![p] = m.desc.stream]
                       ELSE rtcRemoteStream
                 /\ rtcCalling' = [rtcCalling EXCEPT ![p] = TRUE]
                 /\ rtcHandled' = rtcHandled \cup
                       {[peer |-> p, event |-> "answer", result |-> "applied"]}
    /\ UNCHANGED <<rtcLocal, rtcAnswering, rtcView, rtcCalls>>

\* The state has changed since the last commit.
RtcDirty(p) ==
    rtcView[p].video # rtcCalling[p] \/ rtcView[p].dep # rtcRemoteStream[p]

\* LiveStreamComponent renders and commits: the remote <video> is there
\* while isCalling, then the [remoteStream] effect.
RtcCommit(p) ==
    /\ RtcDirty(p)
    /\ rtcView' = [rtcView EXCEPT ![p] =
          [video |-> rtcCalling[p],
           srcObject |-> remoteEffect(rtcView[p], rtcCalling[p], rtcRemoteStream[p]),
           dep |-> rtcRemoteStream[p]]]
    /\ UNCHANGED <<rtcLocal, rtcPc, rtcRemoteStream, rtcCalling, rtcAnswering,
                   rtcChannel, rtcHandled, rtcCalls>>

RtcNext ==
    \/ \E p \in Peers : SetLocalStream(p) /\ UNCHANGED otherRtcVars
    \/ \E p \in Peers : StartCall(p) /\ UNCHANGED otherRtcVars
    \/ \E p \in Peers, m \in rtcChannel, accepted \in BOOLEAN :
          OnOfferStart(p, m, accepted) /\ UNCHANGED otherRtcVars
    \/ \E p \in Peers : OnOfferFinish(p) /\ UNCHANGED otherRtcVars
    \/ \E p \in Peers, m \in rtcChannel : OnAnswer(p, m) /\ UNCHANGED otherRtcVars
    \/ \E p \in Peers : RtcCommit(p) /\ UNCHANGED otherRtcVars

(***************************************************************************)
(* Properties of useWebRTC and LiveStreamComponent.                        *)
(***************************************************************************)
\* C19: a peer that has handled the answer to its offer has applied it as
\* its remote description and has isCalling true (as the peer that answered
\* has).
C19_AnswerAppliedByCaller ==
    \A h \in rtcHandled :
        h.event = "answer" =>
            /\ h.result = "applied"
            /\ rtcCalling[h.peer]
            /\ rtcPc[h.peer].remote.type = "answer"

\* C20: at a commit where isCalling is true and remoteStream is not null,
\* the srcObject of the remote <video> is remoteStream.
C20_RemoteFeedShown ==
    \A p \in Peers :
        (~RtcDirty(p) /\ rtcCalling[p] /\ rtcRemoteStream[p] # NoStream) =>
            rtcView[p].srcObject = rtcRemoteStream[p]

(***************************************************************************)
(* mockSignalingClient.  A handler is known by the event on() registered   *)
(* it for and by its number among that event's handlers.                   *)
(***************************************************************************)
SignalEvents == {"offer", "answer", "ice-candidate"}

\* An event name useWebRTC does not use.
OtherEvents == {"chat"}

Payloads == {"p1"}

\* Object.values(this.listeners) flattened: every handler of every event.
AllHandlers(ls) ==
    UNION {{[event |-> e, k |-> k] : k \in 1..ls[e]} : e \in DOMAIN ls}

\* The handlers emit(event, payload) schedules: every handler of every
\* event when the emitted event is 'offer', 'answer' or 'ice-candidate',
\* none otherwise.
emitTargets(ls, event) ==
    IF event = "offer" \/ event = "answer" \/ event = "ice-candidate"
    THEN AllHandlers(ls)
    ELSE {}

NoInvocation == [handler |-> [event |-> "none", k |-> 0], emitted |-> "none",
                 payload |-> "none"]

MockInit ==
    /\ listeners = [e \in {} |-> 0]
    /\ mockTimers = {}
    /\ mockInvoked = NoInvocation
    /\ mockEmits = 0

\* on(event, handler): the event's list is created if missing and the
\* handler pushed.
MockOn(event) ==
    /\ Cardinality(AllHandlers(listeners)) < MaxOns
    /\ listeners' = [e \in DOMAIN listeners \cup {event} |->
                        IF e = event
                        THEN (IF e \in DOMAIN listeners THEN listeners[e] ELSE 0) + 1
                        ELSE listeners[e]]
    /\ UNCHANGED <<mockTimers, mockInvoked, mockEmits>>

\* emit(event, payload): a setTimeout(() => handler(payload), 50) for every
\* target.
MockEmit(event, payload) ==
    /\ mockEmits < MaxEmits
    /\ mockEmits' = mockEmits + 1
    /\ mockTimers' = mockTimers \cup
          {[handler |-> h, event |-> event, payload |-> payload] :
              h \in emitTargets(listeners, event)}
    /\ UNCHANGED <<listeners, mockInvoked>>

\* A scheduled callback runs: handler(payload).
MockTimerFires(t) ==
    /\ t \in mockTimers
    /\ mockTimers' = mockTimers \ {t}
    /\ mockInvoked' = [handler |-> t.handler, emitted |-> t.event,
                       payload |-> t.payload]
    /\ UNCHANGED <<listeners, mockEmits>>

MockNext ==
    \/ \E event \in SignalEvents \cup OtherEvents : MockOn(event) /\ UNCHANGED otherMockVars
    \/ \E event \in SignalEvents \cup OtherEvents, payload \in Payloads :
          MockEmit(event, payload) /\ UNCHANGED otherMockVars
    \/ \E t \in mockTimers : MockTimerFires(t) /\ UNCHANGED otherMockVars

(***************************************************************************)
(* Properties of mockSignalingClient.                                      *)
(***************************************************************************)
\* C21: every handler call made for an emit(event, payload) is a call of a
\* handler that on() registered for that event.
C21_OnlyHandlersOfTheEvent ==
    mockInvoked # NoInvocation => mockInvoked.handler.event = mockInvoked.emitted

(***************************************************************************)
(* FilterProvider: setFilters writes the filters into the URL's search     *)
(* parameters.                                                             *)
(***************************************************************************)
\* A filter given as the empty string.
EmptyString == ""

\* if (value): a string other than '' is truthy; '', undefined and null are not.
Truthy(value) ==
    value # EmptyString /\ value # UndefinedValue /\ value # NullValue

RECURSIVE setFiltersFromEmpty(_, _)
\* setFilters building its parameters from new URLSearchParams().
setFiltersFromEmpty(params, newFilters) ==
    IF newFilters = <<>> THEN <<>>
    ELSE LET rest == setFiltersFromEmpty(params, Tail(newFilters))
         IN  IF Truthy(newFilters[1][2])
             THEN paramsSet(rest, newFilters[1][1], newFilters[1][2])
             ELSE paramsDelete(rest, newFilters[1][1])

RECURSIVE setFilters(_, _)
\* updatedParams: new URLSearchParams(searchParams) is a copy, pair for
\* pair; then each entry of newFilters, in order, sets or deletes its key.
setFilters(params, newFilters) ==
    IF newFilters = <<>> THEN params
    ELSE setFilters(IF Truthy(newFilters[1][2])
                    THEN paramsSet(params, newFilters[1][1], newFilters[1][2])
                    ELSE paramsDelete(params, newFilters[1][1]),
                    Tail(newFilters))

\* The newFilters objects the pages pass, as their entries.
NewFilterProps ==
    {<<<<"status", "paid">>>>,
     <<<<"status", EmptyString>>>>,
     <<<<"sort", UndefinedValue>>>>,
     <<<<"status", "draft">>, <<"sort", EmptyString>>>>}

NoSetFiltersCall == [newFilters |-> <<>>, from |-> <<>>, to |-> <<>>]

FilterInit ==
    /\ fpSearchParams = <<>>
    /\ setFiltersCall = NoSetFiltersCall

\* The browser is at a URL with these search parameters.
FpOpenUrl(params) ==
    /\ fpSearchParams' = params
    /\ UNCHANGED setFiltersCall

\* setFilters(newFilters): setSearchParams(updatedParams) navigates, and
\* the provider renders with the new parameters.
SetFilters(newFilters) ==
    /\ fpSearchParams' = setFilters(fpSearchParams, newFilters)
    /\ setFiltersCall' = [newFilters |-> newFilters, from |-> fpSearchParams,
                          to |-> fpSearchParams']

FilterNext ==
    \/ \E params \in ParamLists(MaxParams) : FpOpenUrl(params) /\ UNCHANGED otherFilterVars
    \/ \E newFilters \in NewFilterProps : SetFilters(newFilters) /\ UNCHANGED otherFilterVars

(***************************************************************************)
(* Properties of FilterProvider.                                           *)
(***************************************************************************)
\* The pairs of params whose key is not a key of the entries.
OtherPairs(params, entries) ==
    SelectSeq(params, LAMBDA p : \A i \in 1..Len(entries) : entries[i][1] # p[1])

\* The values params holds for key, in order.
ValuesOf(params, key) ==
    LET pairs == SelectSeq(params, LAMBDA p : p[1] = key)
    IN  [i \in 1..Len(pairs) |-> pairs[i][2]]

RECURSIVE IdLists(_)
\* The arrays of at most n ids.
IdLists(n) ==
    IF n = 0 THEN {<<>>}
    ELSE LET shorter == IdLists(n - 1)
         IN  shorter \cup {Append(l, id) : l \in {s \in shorter : Len(s) = n - 1},
                                           id \in UserIds}

\* The body the server holds for /api/users/${userId}.
UserOf(userId) == <<"user", userId>>

\* What response.json() can do for the user of this id.
JsonOutcomesOf(userId) ==
    {[kind |-> "data", value |-> UserOf(userId)],
     [kind |-> "reject", value |-> <<"SyntaxError: Unexpected token">>]}

\* Promise.all handing on the values in the order their promises settled.
promiseAllInSettledOrder(promises, settled) ==
    IF \E i \in 1..Len(promises) : promises[i].result.state = "rejected"
    THEN LET first == CHOOSE k \in 1..Len(settled) :
                         /\ promises[settled[k]].result.state = "rejected"
                         /\ \A j \in 1..(k - 1) :
                               promises[settled[j]].result.state # "rejected"
         IN  [state |-> "rejected", value |-> promises[settled[first]].result.value]
    ELSE IF \A i \in 1..Len(promises) : promises[i].result.state = "fulfilled"
         THEN [state |-> "fulfilled",
               value |-> [k \in 1..Len(settled) |-> promises[settled[k]].result.value]]
         ELSE Pending

\* Promise.all(promises): rejected with the reason of the promise that
\* rejected first; fulfilled, once every promise is, with their values in
\* the order of the array; pending otherwise.
promiseAll(promises, settled) ==
    IF \E i \in 1..Len(promises) : promises[i].result.state = "rejected"
    THEN LET first == CHOOSE k \in 1..Len(settled) :
                         /\ promises[settled[k]].result.state = "rejected"
                         /\ \A j \in 1..(k - 1) :
                               promises[settled[j]].result.state # "rejected"
         IN  [state |-> "rejected", value |-> promises[settled[first]].result.value]
    ELSE IF \A i \in 1..Len(promises) : promises[i].result.state = "fulfilled"
         THEN [state |-> "fulfilled",
               value |-> [i \in 1..Len(promises) |-> promises[i].result.value]]
         ELSE Pending

MultiInit ==
    /\ userIds = <<>>
    /\ userPromises = <<>>
    /\ fetchesStarted = <<>>
    /\ settledOrder = <<>>
    /\ allPromise = Pending
    /\ fmPc = "idle"
    /\ fmResult = Pending
    /\ fmLog = <<>>

\* fetchMultipleUsers(ids) up to its await: map calls
\* fetchDataWithAsyncAwait for each id, and each call runs to its own
\* await fetch(...); Promise.all takes the promises.
FetchMultipleUsersCall(ids) ==
    /\ fmPc = "idle"
    /\ userIds' = ids
    /\ userPromises' = [i \in 1..Len(ids) |-> [pc |-> "await fetch", result |-> Pending]]
    /\ fetchesStarted' = ids
    /\ allPromise' = promiseAll(userPromises', settledOrder)
    /\ fmPc' = "await all"
    /\ UNCHANGED <<settledOrder, fmResult, fmLog>>

\* The call for userIds[i] has settled with this result, after this
\* console line.
UserPromiseSettles(i, line, result) ==
    /\ userPromises' = [userPromises EXCEPT ![i] = [pc |-> "done", result |-> result]]
    /\ settledOrder' = Append(settledOrder, i)
    /\ fmLog' = Append(fmLog, line)
    /\ allPromise' = IF allPromise.state = "pending"
                     THEN promiseAll(userPromises', settledOrder')
                     ELSE allPromise

\* The call for userIds[i] resumes from await fetch(...).
FmAfterFetch(i, f) ==
    /\ userPromises[i].pc = "await fetch"
    /\ IF f.kind = "reject"
       THEN UserPromiseSettles(i, ErrorLine("Async/Await", f.status),
                                  asyncCatch(f.status))
       ELSE IF ~f.ok
            THEN UserPromiseSettles(i, ErrorLine("Async/Await", HttpError(f)),
                                       asyncCatch(HttpError(f)))
            ELSE /\ userPromises' = [userPromises EXCEPT ![i].pc = "await json"]
                 /\ UNCHANGED <<settledOrder, fmLog, allPromise>>
    /\ UNCHANGED <<userIds, fetchesStarted, fmPc, fmResult>>

\* The call for userIds[i] resumes from await response.json().
FmAfterJson(i, j) ==
    /\ userPromises[i].pc = "await json"
    /\ IF j.kind = "reject"
       THEN UserPromiseSettles(i, ErrorLine("Async/Await", j.value),
                                  asyncCatch(j.value))
       ELSE UserPromiseSettles(i, LogLine("Async/Await", j.value),
                                  [state |-> "fulfilled", value |-> j.value])
    /\ UNCHANGED <<userIds, fetchesStarted, fmPc, fmResult>>

\* fetchMultipleUsers resumes from await Promise.all(userPromises).
FetchMultipleUsersResume ==
    /\ fmPc = "await all"
    /\ allPromise.state # "pending"
    /\ IF allPromise.state = "fulfilled"
       THEN /\ fmLog' = Append(fmLog, LogLine("All users fetched", allPromise.value))
            /\ fmResult' = allPromise
       ELSE /\ fmLog' = Append(fmLog, ErrorLine("Error fetching multiple users",
                                                allPromise.value))
            /\ fmResult' = [state |-> "rejected", value |-> allPromise.value]
    /\ fmPc' = "done"
    /\ UNCHANGED <<userIds, userPromises, fetchesStarted, settledOrder, allPromise>>

MultiNext ==
    \/ \E ids \in IdLists(MaxUsers) : FetchMultipleUsersCall(ids) /\ UNCHANGED otherMultiVars
    \/ \E i \in 1..Len(userIds), f \in FetchOutcomes : FmAfterFetch(i, f) /\ UNCHANGED otherMultiVars
    \/ \E i \in 1..Len(userIds) : \E j \in JsonOutcomesOf(userIds[i]) :
          FmAfterJson(i, j) /\ UNCHANGED otherMultiVars
    \/ FetchMultipleUsersResume /\ UNCHANGED otherMultiVars

(***************************************************************************)
(* Properties of fetchMultipleUsers.                                       *)
(***************************************************************************)
\* C24: once fetchMultipleUsers is at its await, fetch has been called for
\* every id, in the order of userIds, whatever has settled.  When every
\* call has succeeded it resolves with the users in the order of userIds,
\* in whatever order they settled.  When a call has rejected, Promise.all
\* has rejected without waiting for the others, and fetchMultipleUsers,
\* once resumed, has logged the error and rejected with it.
C24_ConcurrentFetches ==
    fmPc # "idle" =>
        /\ fetchesStarted = userIds
        /\ (fmPc = "done"
              /\ \A i \in 1..Len(userIds) : userPromises[i].result.state = "fulfilled") =>
                /\ fmResult = [state |-> "fulfilled",
                               value |-> [i \in 1..Len(userIds) |-> UserOf(userIds[i])]]
                /\ fmLog[Len(fmLog)] = LogLine("All users fetched", fmResult.value)
        /\ (\E i \in 1..Len(userIds) : userPromises[i].result.state = "rejected") =>
                /\ allPromise.state = "rejected"
                /\ fmPc = "done" =>
                      /\ fmResult.state = "rejected"
                      /\ \E k \in 1..Len(fmLog) :
                            fmLog[k] = ErrorLine("Error fetching multiple users",
                                                 fmResult.value)
                      /\ \E i \in 1..Len(userIds) :
                            userPromises[i].result = fmResult

\* fetchMultipleUsers(['u1', 'u2']) has resolved where the fetch for u2
\* settled before the fetch for u1.
C24_Witness ==
    /\ userIds = <<"u1", "u2">>
    /\ settledOrder = <<2, 1>>
    /\ fmPc = "done"
    /\ fmResult.state = "fulfilled"

(***************************************************************************)
(* The post page: getStaticPaths lists the posts directory and             *)
(* getStaticProps reads the file of a slug.  A file name is a sequence of  *)
(* parts; the part ".md" is the only one that holds the text ".md".        *)
(***************************************************************************)
NameParts == {"hello", ".md", ".txt"}

RECURSIVE NamesUpTo(_)
\* The file names of at most n parts.
NamesUpTo(n) ==
    IF n = 0 THEN {}
    ELSE LET shorter == NamesUpTo(n - 1)
         IN  shorter \cup {<<p>> : p \in NameParts}
                     \cup {Append(s, p) : s \in {t \in shorter : Len(t) = n - 1},
                                          p \in NameParts}

\* `${params?.slug}.md`
fullPath(slug) == Append(slug, ".md")

\* filename.replace(/\.md$/, ''): a name that ends in ".md" loses that
\* ending; any other name is the slug as it is.
slugOf(filename) ==
    IF Len(filename) > 0 /\ filename[Len(filename)] = ".md"
    THEN SubSeq(filename, 1, Len(filename) - 1)
    ELSE filename

NotBuilt == {<<"getStaticPaths has not run">>}

NoFileRead == [slug |-> <<>>, fullPath |-> <<>>, found |-> FALSE]

PostInit ==
    /\ postsDirectory = {}
    /\ paths = NotBuilt
    /\ fileRead = NoFileRead

\* A file or directory of this name is put into posts/ before the build.
AddFile(filename) ==
    /\ paths = NotBuilt
    /\ filename \notin postsDirectory
    /\ Cardinality(postsDirectory) < MaxFiles
    /\ postsDirectory' = postsDirectory \cup {filename}
    /\ UNCHANGED <<paths, fileRead>>

\* getStaticPaths(): one slug per name readdirSync returns.
GetStaticPaths ==
    /\ paths = NotBuilt
    /\ paths' = {slugOf(filename) : filename \in postsDirectory}
    /\ UNCHANGED <<postsDirectory, fileRead>>

\* getStaticProps({params: {slug}}) for a path of getStaticPaths, up to
\* fs.readFileSync(fullPath), which throws when no such file is there.
GetStaticProps(slug) ==
    /\ paths # NotBuilt
    /\ slug \in paths
    /\ fileRead' = [slug |-> slug, fullPath |-> fullPath(slug),
                    found |-> fullPath(slug) \in postsDirectory]
    /\ UNCHANGED <<postsDirectory, paths>>

PostNext ==
    \/ \E filename \in NamesUpTo(MaxNameLen) : AddFile(filename) /\ UNCHANGED otherPostVars
    \/ GetStaticPaths /\ UNCHANGED otherPostVars
    \/ \E slug \in paths : GetStaticProps(slug) /\ UNCHANGED otherPostVars

(***************************************************************************)
(* Properties of the post page.                                            *)
(***************************************************************************)
\* C27: the file getStaticProps reads for a slug that getStaticPaths
\* returned is in the posts directory, whatever names the directory holds.
C27_SlugHasFile ==
    fileRead # NoFileRead => fileRead.found

(***************************************************************************)
(* Specifications.                                                         *)
(***************************************************************************)
Init == SiteInit /\ ChainInit /\ UseEventInit /\ AuthInit /\ VideoInit /\
        TodoInit /\ BookingInit /\ FetchInit /\ LinkInit /\ TimerInit /\
        RtcInit /\ MockInit /\ FilterInit /\ MultiInit /\ PostInit

Next ==
    \/ SiteNext
    \/ ChainNext
    \/ UseEventNext
    \/ AuthNext
    \/ VideoNext
    \/ TodoNext
    \/ BookingNext
    \/ FetchNext
    \/ LinkNext
    \/ TimerNext
    \/ RtcNext
    \/ MockNext
    \/ FilterNext
    \/ MultiNext
    \/ PostNext

Spec == Init /\ [][Next]_vars

\* The site alone.
SiteSpec == Init /\ [][SiteNext]_vars

\* VerifiableChain alone.
ChainSpec == Init /\ [][ChainNext]_vars

\* A component that uses useEvent, alone.
UseEventSpec == Init /\ [][UseEventNext]_vars

\* The routes under ProtectedRoutes, alone.
AuthSpec == Init /\ [][AuthNext]_vars

\* LocalVideoPlayer, alone.
VideoSpec == Init /\ [][VideoNext]_vars

\* TodoList, alone.
TodoSpec == Init /\ [][TodoNext]_vars

\* BookingPage, alone.
BookingSpec == Init /\ [][BookingNext]_vars

\* fetchDataWithPromises and fetchDataWithAsyncAwait, alone.
FetchSpec == Init /\ [][FetchNext]_vars

\* HaubeLinkToInvoiceList under FilterProvider, alone.
LinkSpec == Init /\ [][LinkNext]_vars

\* BetterTimer, alone.
TimerSpec == Init /\ [][TimerNext]_vars

\* Two LiveStreamComponents over a forwarding signaling channel, alone.
RtcSpec == Init /\ [][RtcNext]_vars

\* mockSignalingClient, alone.
MockSpec == Init /\ [][MockNext]_vars

\* Filter, alone.
FilterSpec == Init /\ [][FilterNext]_vars

\* Multi, alone.
MultiSpec == Init /\ [][MultiNext]_vars

\* Post, alone.
PostSpec == Init /\ [][PostNext]_vars

====
